---- MODULE Spec2Model ----
(***************************************************************************)
(* A model of error-to-md (src/index.js): the redactor cleanObject, the    *)
(* fingerprinter generateErrorId, the theme and severity lookups and the   *)
(* report builder errorToMarkdown.                                         *)
(*                                                                         *)
(* JavaScript strings are TLA+ strings (Len, SubSeq and \o act on them).   *)
(* The module text is ASCII, so every emoji of the source is written as    *)
(* its name in parentheses, e.g. "(bug)" for U+1F41B, and the grave accent *)
(* U+0060, which a TLA+ string cannot hold, is written as the tilde "~".   *)
(*                                                                         *)
(* JavaScript values are tagged records:                                   *)
(*   [t |-> "undef"]  [t |-> "null"]  [t |-> "bool", b |-> TRUE]           *)
(*   [t |-> "num", n |-> 3]  [t |-> "str", s |-> "abc"]                    *)
(*   [t |-> "arr", a |-> <<v1, v2>>]                                       *)
(*   [t |-> "obj", k |-> <<"key1", "key2">>, v |-> <<v1, v2>>]             *)
(*   [t |-> "fun", name |-> "Object"]   (a built-in function object)       *)
(* An object's keys are kept in property order.                            *)
(***************************************************************************)
EXTENDS Integers, Sequences, FiniteSets, TLC

----------------------------------------------------------------------------
(* String primitives of the JavaScript runtime used by src/index.js.       *)

CharAt(s, i) == SubSeq(s, i, i)

\* String.prototype.includes
Includes(hay, needle) ==
  \E i \in 1..(Len(hay) - Len(needle) + 1) :
    SubSeq(hay, i, i + Len(needle) - 1) = needle

StartsWith(s, p) == Len(p) <= Len(s) /\ SubSeq(s, 1, Len(p)) = p

EndsWith(s, p) == Len(p) <= Len(s) /\ SubSeq(s, Len(s) - Len(p) + 1, Len(s)) = p

\* String.prototype.substring(0, n)
Substring0(s, n) ==
  IF n <= 0 THEN "" ELSE IF n >= Len(s) THEN s ELSE SubSeq(s, 1, n)

UpperChars == "ABCDEFGHIJKLMNOPQRSTUVWXYZ"
LowerChars == "abcdefghijklmnopqrstuvwxyz"

\* the character of `to` at the place c has in `from`, or c itself
MapChar(c, from, to) ==
  IF \E i \in 1..Len(from) : CharAt(from, i) = c
  THEN CharAt(to, CHOOSE i \in 1..Len(from) : CharAt(from, i) = c)
  ELSE c

\* s with every character mapped (the string is halved, so that the
\* evaluation nests only logarithmically deep)
RECURSIVE MapString(_, _, _)
MapString(s, from, to) ==
  IF s = "" THEN ""
  ELSE IF Len(s) = 1 THEN MapChar(s, from, to)
  ELSE LET h == Len(s) \div 2
       IN  MapString(SubSeq(s, 1, h), from, to)
             \o MapString(SubSeq(s, h + 1, Len(s)), from, to)

ToLowerCase(s) == MapString(s, UpperChars, LowerChars)
ToUpperCase(s) == MapString(s, LowerChars, UpperChars)

\* String.prototype.split('\n'): the pieces between the separators
RECURSIVE Split(_, _)
Split(s, sep) ==
  IF Len(s) <= 1 THEN (IF s = sep THEN << "", "" >> ELSE << s >>)
  ELSE LET h == Len(s) \div 2
           L == Split(SubSeq(s, 1, h), sep)
           R == Split(SubSeq(s, h + 1, Len(s)), sep)
       IN  SubSeq(L, 1, Len(L) - 1) \o << L[Len(L)] \o R[1] >> \o Tail(R)

\* Array.prototype.join over strings
RECURSIVE Join(_, _)
Join(lines, sep) ==
  IF lines = << >> THEN ""
  ELSE IF Len(lines) = 1 THEN lines[1]
  ELSE LET h == Len(lines) \div 2
       IN  Join(SubSeq(lines, 1, h), sep) \o sep
             \o Join(SubSeq(lines, h + 1, Len(lines)), sep)

----------------------------------------------------------------------------
(* MD5 (RFC 1321), as computed by createHash('md5').update(s).digest('hex') *)
(* on an ASCII string.  A 32-bit word is a pair <<high 16 bits, low 16      *)
(* bits>>, so that no intermediate value leaves the checker's integers.     *)

\* the printable ASCII characters with codes 32..95 and 97..126
AsciiLow == " !\"#$%&'()*+,-./0123456789:;<=>?@ABCDEFGHIJKLMNOPQRSTUVWXYZ[\\]^_"
AsciiHigh == "abcdefghijklmnopqrstuvwxyz{|}~"

\* the code unit of a printable ASCII character (update(s) hashes the UTF-8
\* bytes of s, one byte per ASCII character)
CharCode(c) ==
  IF \E i \in 1..Len(AsciiLow) : CharAt(AsciiLow, i) = c
  THEN 31 + (CHOOSE i \in 1..Len(AsciiLow) : CharAt(AsciiLow, i) = c)
  ELSE 96 + (CHOOSE i \in 1..Len(AsciiHigh) : CharAt(AsciiHigh, i) = c)

\* the bitwise AND of two 4-bit numbers a and b, at [a + 1][b + 1]
AndT ==
  << <<  0,  0,  0,  0,  0,  0,  0,  0,  0,  0,  0,  0,  0,  0,  0,  0 >>,
     <<  0,  1,  0,  1,  0,  1,  0,  1,  0,  1,  0,  1,  0,  1,  0,  1 >>,
     <<  0,  0,  2,  2,  0,  0,  2,  2,  0,  0,  2,  2,  0,  0,  2,  2 >>,
     <<  0,  1,  2,  3,  0,  1,  2,  3,  0,  1,  2,  3,  0,  1,  2,  3 >>,
     <<  0,  0,  0,  0,  4,  4,  4,  4,  0,  0,  0,  0,  4,  4,  4,  4 >>,
     <<  0,  1,  0,  1,  4,  5,  4,  5,  0,  1,  0,  1,  4,  5,  4,  5 >>,
     <<  0,  0,  2,  2,  4,  4,  6,  6,  0,  0,  2,  2,  4,  4,  6,  6 >>,
     <<  0,  1,  2,  3,  4,  5,  6,  7,  0,  1,  2,  3,  4,  5,  6,  7 >>,
     <<  0,  0,  0,  0,  0,  0,  0,  0,  8,  8,  8,  8,  8,  8,  8,  8 >>,
     <<  0,  1,  0,  1,  0,  1,  0,  1,  8,  9,  8,  9,  8,  9,  8,  9 >>,
     <<  0,  0,  2,  2,  0,  0,  2,  2,  8,  8, 10, 10,  8,  8, 10, 10 >>,
     <<  0,  1,  2,  3,  0,  1,  2,  3,  8,  9, 10, 11,  8,  9, 10, 11 >>,
     <<  0,  0,  0,  0,  4,  4,  4,  4,  8,  8,  8,  8, 12, 12, 12, 12 >>,
     <<  0,  1,  0,  1,  4,  5,  4,  5,  8,  9,  8,  9, 12, 13, 12, 13 >>,
     <<  0,  0,  2,  2,  4,  4,  6,  6,  8,  8, 10, 10, 12, 12, 14, 14 >>,
     <<  0,  1,  2,  3,  4,  5,  6,  7,  8,  9, 10, 11, 12, 13, 14, 15 >> >>

\* the bitwise AND of two 16-bit numbers, four bits at a time
And16(a, b) ==
    AndT[(a % 16) + 1][(b % 16) + 1]
  + 16 * AndT[((a \div 16) % 16) + 1][((b \div 16) % 16) + 1]
  + 256 * AndT[((a \div 256) % 16) + 1][((b \div 256) % 16) + 1]
  + 4096 * AndT[(a \div 4096) + 1][(b \div 4096) + 1]

\* a OR b = a + b - (a AND b); a XOR b = a + b - 2 (a AND b)
WAnd(x, y) == << And16(x[1], y[1]), And16(x[2], y[2]) >>
WOr(x, y)  == << x[1] + y[1] - And16(x[1], y[1]), x[2] + y[2] - And16(x[2], y[2]) >>
WXor(x, y) == << x[1] + y[1] - 2 * And16(x[1], y[1]), x[2] + y[2] - 2 * And16(x[2], y[2]) >>
WNot(x)    == << 65535 - x[1], 65535 - x[2] >>

\* addition modulo 2^32
WAdd(x, y) ==
  LET lo == x[2] + y[2]
  IN  << (x[1] + y[1] + (lo \div 65536)) % 65536, lo % 65536 >>

Pow2(n) == IF n = 0 THEN 1 ELSE 2 ^ n

\* rotation to the left by s bits, 0 < s < 32
WRotl(x, s) ==
  LET y == IF s >= 16 THEN << x[2], x[1] >> ELSE x
      r == s % 16
  IN  IF r = 0 THEN y
      ELSE << ((y[1] * Pow2(r)) % 65536) + (y[2] \div Pow2(16 - r)),
              ((y[2] * Pow2(r)) % 65536) + (y[1] \div Pow2(16 - r)) >>

\* floor(2^32 * abs(sin(i + 1))), i = 0..63
Md5K ==
  << <<55146, 42104>>, <<59591, 46934>>, <<9248, 28891>>, <<49597, 52974>>,
     <<62844, 4015>>, <<18311, 50730>>, <<43056, 17939>>, <<64838, 38145>>,
     <<27008, 39128>>, <<35652, 63407>>, <<65535, 23473>>, <<35164, 55230>>,
     <<27536, 4386>>, <<64920, 29075>>, <<42617, 17294>>, <<18868, 2081>>,
     <<63006, 9570>>, <<49216, 45888>>, <<9822, 23121>>, <<59830, 51114>>,
     <<54831, 4189>>, <<580, 5203>>, <<55457, 59009>>, <<59347, 64456>>,
     <<8673, 52710>>, <<49975, 2006>>, <<62677, 3463>>, <<17754, 5357>>,
     <<43491, 59653>>, <<64751, 41976>>, <<26479, 729>>, <<36138, 19594>>,
     <<65530, 14658>>, <<34673, 63105>>, <<28061, 24866>>, <<64997, 14348>>,
     <<42174, 59972>>, <<19422, 53161>>, <<63163, 19296>>, <<48831, 48240>>,
     <<10395, 32454>>, <<60065, 10234>>, <<54511, 12421>>, <<1160, 7429>>,
     <<55764, 53305>>, <<59099, 39397>>, <<8098, 31992>>, <<50348, 22117>>,
     <<62505, 8772>>, <<17194, 65431>>, <<43924, 9127>>, <<64659, 41017>>,
     <<25947, 22979>>, <<36620, 52370>>, <<65519, 62589>>, <<34180, 24017>>,
     <<28584, 32335>>, <<65068, 59104>>, <<41729, 17172>>, <<19976, 4513>>,
     <<63315, 32386>>, <<48442, 62005>>, <<10967, 53947>>, <<60294, 54161>> >>

Md5Shift ==
  << 7, 12, 17, 22, 7, 12, 17, 22, 7, 12, 17, 22, 7, 12, 17, 22,
     5, 9, 14, 20, 5, 9, 14, 20, 5, 9, 14, 20, 5, 9, 14, 20,
     4, 11, 16, 23, 4, 11, 16, 23, 4, 11, 16, 23, 4, 11, 16, 23,
     6, 10, 15, 21, 6, 10, 15, 21, 6, 10, 15, 21, 6, 10, 15, 21 >>

Md5InitState ==
  << <<26437, 8961>>, <<61389, 43913>>, <<39098, 56574>>, <<4146, 21622>> >>

\* one of the 64 steps on the working state v = <<a, b, c, d>>
Md5Step(v, M, i) ==
  LET a == v[1]
      b == v[2]
      c == v[3]
      d == v[4]
      f == CASE i < 16 -> WOr(WAnd(b, c), WAnd(WNot(b), d))
             [] i < 32 -> WOr(WAnd(d, b), WAnd(WNot(d), c))
             [] i < 48 -> WXor(b, WXor(c, d))
             [] OTHER  -> WXor(c, WOr(b, WNot(d)))
      g == CASE i < 16 -> i
             [] i < 32 -> (5 * i + 1) % 16
             [] i < 48 -> (3 * i + 5) % 16
             [] OTHER  -> (7 * i) % 16
      sum == WAdd(WAdd(WAdd(a, f), Md5K[i + 1]), M[g + 1])
  IN  << d, WAdd(b, WRotl(sum, Md5Shift[i + 1])), b, c >>

\* the steps lo..hi applied in order to v
RECURSIVE Md5Rounds(_, _, _, _)
Md5Rounds(v, M, lo, hi) ==
  IF lo = hi THEN Md5Step(v, M, lo)
  ELSE LET mid == (lo + hi) \div 2
           w == Md5Rounds(v, M, lo, mid)
       IN  IF Len(w) = 4 THEN Md5Rounds(w, M, mid + 1, hi) ELSE w

\* the state after one 64-byte block
Md5Block(h, bytes) ==
  LET M == [j \in 1..16 |->
              << bytes[4 * j - 1] + 256 * bytes[4 * j],
                 bytes[4 * j - 3] + 256 * bytes[4 * j - 2] >>]
      v == Md5Rounds(h, M, 0, 63)
  IN  << WAdd(h[1], v[1]), WAdd(h[2], v[2]), WAdd(h[3], v[3]), WAdd(h[4], v[4]) >>

RECURSIVE Md5Blocks(_, _)
Md5Blocks(h, bytes) ==
  IF bytes = << >> THEN h
  ELSE Md5Blocks(Md5Block(h, SubSeq(bytes, 1, 64)), SubSeq(bytes, 65, Len(bytes)))

\* the message, the 0x80 byte, zeros up to 56 modulo 64, the bit length in
\* 8 little-endian bytes (messages here are shorter than 8192 bytes)
Md5Pad(s) ==
  LET n == Len(s)
      z == (119 - n) % 64
      bits == 8 * n
  IN  [i \in 1..n |-> CharCode(CharAt(s, i))] \o << 128 >> \o [i \in 1..z |-> 0]
      \o << bits % 256, (bits \div 256) % 256, 0, 0, 0, 0, 0, 0 >>

HexDigits == "0123456789abcdef"

HexByte(b) == CharAt(HexDigits, (b \div 16) + 1) \o CharAt(HexDigits, (b % 16) + 1)

\* a word in the digest's byte order (little-endian)
HexWord(w) ==
  HexByte(w[2] % 256) \o HexByte(w[2] \div 256) \o HexByte(w[1] % 256) \o HexByte(w[1] \div 256)

Md5Hex(s) ==
  LET h == Md5Blocks(Md5InitState, Md5Pad(s))
  IN  HexWord(h[1]) \o HexWord(h[2]) \o HexWord(h[3]) \o HexWord(h[4])

----------------------------------------------------------------------------
(* JavaScript values.                                                      *)

Undef == [t |-> "undef"]
Null == [t |-> "null"]
Bool(b) == [t |-> "bool", b |-> b]
Num(n) == [t |-> "num", n |-> n]
Str(s) == [t |-> "str", s |-> s]
Arr(a) == [t |-> "arr", a |-> a]
Obj(k, v) == [t |-> "obj", k |-> k, v |-> v]
Fun(name) == [t |-> "fun", name |-> name]

EmptyObj == Obj(<< >>, << >>)

\* ToBoolean
Truthy(v) ==
  CASE v.t = "undef" -> FALSE
    [] v.t = "null"  -> FALSE
    [] v.t = "bool"  -> v.b
    [] v.t = "num"   -> v.n # 0
    [] v.t = "str"   -> v.s # ""
    [] OTHER         -> TRUE

\* a ?? b
OrElseNullish(a, b) == IF a.t \in {"undef", "null"} THEN b ELSE a

\* a || b
OrElse(a, b) == IF Truthy(a) THEN a ELSE b

\* typeof v === 'object'
TypeofObject(v) == v.t \in {"null", "arr", "obj"}

\* the names every plain object inherits from Object.prototype
ObjectPrototypeNames ==
  { "constructor", "toString", "toLocaleString", "valueOf", "hasOwnProperty",
    "isPrototypeOf", "propertyIsEnumerable", "__proto__" }

\* the value of an inherited member: the function Object for 'constructor',
\* Object.prototype itself for '__proto__', a built-in method otherwise
ObjectPrototypeMember(name) ==
  CASE name = "constructor" -> Fun("Object")
    [] name = "__proto__"   -> EmptyObj
    [] OTHER                -> Fun(name)

HasOwn(o, key) == o.t = "obj" /\ \E i \in 1..Len(o.k) : o.k[i] = key

\* o[key] / o.key on a value that is not null or undefined: an own property,
\* else a member of Object.prototype (plain objects), else undefined
Get(o, key) ==
  IF HasOwn(o, key) THEN o.v[CHOOSE i \in 1..Len(o.k) : o.k[i] = key]
  ELSE IF o.t = "obj" /\ key \in ObjectPrototypeNames THEN ObjectPrototypeMember(key)
  ELSE Undef

\* o?.key
OptGet(o, key) == IF o.t \in {"undef", "null"} THEN Undef ELSE Get(o, key)

\* the object o with property key set to val (an own key keeps its place)
Put(o, key, val) ==
  IF HasOwn(o, key)
  THEN Obj(o.k, [i \in 1..Len(o.k) |-> IF o.k[i] = key THEN val ELSE o.v[i]])
  ELSE Obj(Append(o.k, key), Append(o.v, val))

\* { ...a, ...b }
RECURSIVE SpreadFrom(_, _, _)
SpreadFrom(acc, b, i) ==
  IF i > Len(b.k) THEN acc ELSE SpreadFrom(Put(acc, b.k[i], b.v[i]), b, i + 1)

\* a merge that joins the lists of a and b instead of replacing them
SpreadMergingLists(a, b) ==
  LET m == SpreadFrom(a, b, 1)
      joined(key) == HasOwn(a, key) /\ HasOwn(b, key)
                     /\ Get(a, key).t = "arr" /\ Get(b, key).t = "arr"
  IN  Obj(m.k, [i \in 1..Len(m.k) |->
                  IF joined(m.k[i]) THEN Arr(Get(a, m.k[i]).a \o Get(b, m.k[i]).a)
                  ELSE m.v[i]])

Spread(a, b) == SpreadFrom(a, b, 1)

\* Object.keys(v).length of a value that is not null or undefined
KeyCount(v) ==
  CASE v.t = "obj" -> Len(v.k)
    [] v.t = "arr" -> Len(v.a)
    [] v.t = "str" -> Len(v.s)
    [] OTHER       -> 0

\* ToString, as a template literal applies it
RECURSIVE ToStr(_)
ToStr(v) ==
  CASE v.t = "undef" -> "undefined"
    [] v.t = "null"  -> "null"
    [] v.t = "bool"  -> IF v.b THEN "true" ELSE "false"
    [] v.t = "num"   -> ToString(v.n)
    [] v.t = "str"   -> v.s
    [] v.t = "arr"   ->
         Join([i \in 1..Len(v.a) |->
                 IF v.a[i].t \in {"undef", "null"} THEN "" ELSE ToStr(v.a[i])], ",")
    [] v.t = "obj"   -> "[object Object]"
    [] v.t = "fun"   -> "function " \o v.name \o "() { [native code] }"

\* Array.prototype.join('\n') of an array of strings and undefined
JoinValues(md) ==
  Join([i \in 1..Len(md) |-> IF md[i].t \in {"undef", "null"} THEN "" ELSE ToStr(md[i])],
       "\n")

----------------------------------------------------------------------------
(* JSON.stringify(value, replacer, indent) and JSON.parse(text).           *)

\* the replacer of cleanObject
Replacer(redactKeys, key, value) ==
  IF \E i \in 1..Len(redactKeys) :
       Includes(ToLowerCase(key), ToLowerCase(redactKeys[i]))
  THEN Str("[REDACTED]")
  ELSE value

NoReplacer == [on |-> FALSE, keys |-> << >>]
RedactReplacer(redactKeys) == [on |-> TRUE, keys |-> redactKeys]

QuoteChar(c) ==
  CASE c = "\"" -> "\\\""
    [] c = "\\" -> "\\\\"
    [] c = "\n" -> "\\n"
    [] OTHER    -> c

RECURSIVE QuoteChars(_)
QuoteChars(s) ==
  IF s = "" THEN ""
  ELSE IF Len(s) = 1 THEN QuoteChar(s)
  ELSE LET h == Len(s) \div 2
       IN  QuoteChars(SubSeq(s, 1, h)) \o QuoteChars(SubSeq(s, h + 1, Len(s)))

\* QuoteJSONString
Quote(s) == "\"" \o QuoteChars(s) \o "\""

\* SerializeJSONProperty: [def |-> FALSE] stands for the result undefined
RECURSIVE SerializeJSONProperty(_, _, _, _, _)
RECURSIVE ObjectMembers(_, _, _, _, _)
RECURSIVE ArrayElements(_, _, _, _, _)

SerializeJSONProperty(key, holderValue, rep, gap, indent) ==
  LET value == IF rep.on THEN Replacer(rep.keys, key, holderValue) ELSE holderValue
      inner == indent \o gap
      wrap(open, parts, close) ==
        IF parts = << >> THEN open \o close
        ELSE IF gap = "" THEN open \o Join(parts, ",") \o close
        ELSE open \o "\n" \o inner \o Join(parts, ",\n" \o inner)
                  \o "\n" \o indent \o close
  IN  CASE value.t = "null" -> [def |-> TRUE, s |-> "null"]
        [] value.t = "bool" -> [def |-> TRUE, s |-> IF value.b THEN "true" ELSE "false"]
        [] value.t = "num"  -> [def |-> TRUE, s |-> ToString(value.n)]
        [] value.t = "str"  -> [def |-> TRUE, s |-> Quote(value.s)]
        [] value.t = "obj"  ->
             [def |-> TRUE, s |-> wrap("{", ObjectMembers(value, 1, rep, gap, inner), "}")]
        [] value.t = "arr"  ->
             [def |-> TRUE, s |-> wrap("[", ArrayElements(value, 1, rep, gap, inner), "]")]
        [] OTHER            -> [def |-> FALSE, s |-> ""]

ObjectMembers(o, i, rep, gap, inner) ==
  IF i > Len(o.k) THEN << >>
  ELSE LET p == SerializeJSONProperty(o.k[i], o.v[i], rep, gap, inner)
       IN  (IF p.def
            THEN << Quote(o.k[i]) \o ":" \o (IF gap = "" THEN "" ELSE " ") \o p.s >>
            ELSE << >>) \o ObjectMembers(o, i + 1, rep, gap, inner)

ArrayElements(arr, i, rep, gap, inner) ==
  IF i > Len(arr.a) THEN << >>
  ELSE LET p == SerializeJSONProperty(ToString(i - 1), arr.a[i], rep, gap, inner)
       IN  << IF p.def THEN p.s ELSE "null" >> \o ArrayElements(arr, i + 1, rep, gap, inner)

\* JSON.stringify(value, replacer, indent): a string, or undefined
JSONstringify(value, rep, gap) ==
  LET p == SerializeJSONProperty("", value, rep, gap, "")
  IN  IF p.def THEN Str(p.s) ELSE Undef

Digits == "0123456789"

DigitValue(c) == (CHOOSE i \in 1..10 : CharAt(Digits, i) = c) - 1

IsDigit(c) == \E i \in 1..10 : CharAt(Digits, i) = c

\* the parsers return [v |-> the value, i |-> the index after it]
RECURSIVE ParseValue(_, _)
RECURSIVE ParseStringFrom(_, _, _)
RECURSIVE ParseDigits(_, _, _)
RECURSIVE ParseMembers(_, _, _, _)
RECURSIVE ParseElements(_, _, _)

ParseStringFrom(text, i, acc) ==
  LET c == CharAt(text, i)
      e == CharAt(text, i + 1)
  IN  IF c = "\"" THEN [v |-> acc, i |-> i + 1]
      ELSE IF c = "\\"
      THEN ParseStringFrom(text, i + 2,
             acc \o (CASE e = "n" -> "\n" [] OTHER -> e))
      ELSE ParseStringFrom(text, i + 1, acc \o c)

ParseDigits(text, i, acc) ==
  IF i <= Len(text) /\ IsDigit(CharAt(text, i))
  THEN ParseDigits(text, i + 1, 10 * acc + DigitValue(CharAt(text, i)))
  ELSE [v |-> acc, i |-> i]

ParseMembers(text, i, keys, vals) ==
  LET key == ParseStringFrom(text, i + 1, "")
      val == ParseValue(text, key.i + 1)
      ks == Append(keys, key.v)
      vs == Append(vals, val.v)
  IN  IF CharAt(text, val.i) = ","
      THEN ParseMembers(text, val.i + 1, ks, vs)
      ELSE [v |-> Obj(ks, vs), i |-> val.i + 1]

ParseElements(text, i, vals) ==
  LET val == ParseValue(text, i)
      vs == Append(vals, val.v)
  IN  IF CharAt(text, val.i) = ","
      THEN ParseElements(text, val.i + 1, vs)
      ELSE [v |-> Arr(vs), i |-> val.i + 1]

ParseValue(text, i) ==
  LET c == CharAt(text, i)
  IN  CASE c = "{" -> IF CharAt(text, i + 1) = "}"
                      THEN [v |-> EmptyObj, i |-> i + 2]
                      ELSE ParseMembers(text, i + 1, << >>, << >>)
        [] c = "[" -> IF CharAt(text, i + 1) = "]"
                      THEN [v |-> Arr(<< >>), i |-> i + 2]
                      ELSE ParseElements(text, i + 1, << >>)
        [] c = "\"" -> LET r == ParseStringFrom(text, i + 1, "")
                       IN  [v |-> Str(r.v), i |-> r.i]
        [] c = "t" -> [v |-> Bool(TRUE), i |-> i + 4]
        [] c = "f" -> [v |-> Bool(FALSE), i |-> i + 5]
        [] c = "n" -> [v |-> Null, i |-> i + 4]
        [] c = "-" -> LET r == ParseDigits(text, i + 1, 0)
                      IN  [v |-> Num(0 - r.v), i |-> r.i]
        [] OTHER   -> LET r == ParseDigits(text, i, 0)
                      IN  [v |-> Num(r.v), i |-> r.i]

\* JSON.parse of a text that JSON.stringify produced without indentation
JSONparse(text) == ParseValue(text, 1).v

----------------------------------------------------------------------------
(* The state: the caller's arguments, the process the library runs in, and *)
(* what the last call gave back.                                           *)

VARIABLES
  err,      \* the error argument (any JavaScript value)
  req,      \* the request argument (an object, null or undefined)
  options,  \* the options argument (an object or undefined)
  now,      \* the wall clock: milliseconds since 2025-01-01T00:00:00.000Z
  elapsed,  \* performance.now() at the end of a call minus that at its start, in microseconds
  out,      \* the last call's outcome: [kind |-> "none" | "return" | "throw", ...]
  idLog,    \* the calls of generateErrorId made so far: <<[at, res], ...>>
  cleanArgs, \* the arguments of a direct call of cleanObject: [obj, redactKeys, maxSize]
  mw,       \* the configuration the middleware made by expressErrorToMd holds, or undefined
  res,      \* the response object: [headersSent |-> a boolean]
  trace,    \* the calls made to the outside so far: <<[op |-> name, args |-> values], ...>>
  pc,       \* where a request wrapped by asyncErrorToMd is: "idle", "awaiting", ...;
            \* where a run of the command-line tool is: "idle", "reading", "exited"
  cli       \* a run of the command-line tool: [argv, files, stdin, isTTY, exit]

vars == << err, req, options, now, elapsed, out, idLog, cleanArgs, mw, res, trace, pc, cli >>

Return(v) == [kind |-> "return", value |-> v]
Throw(e) == [kind |-> "throw", error |-> e]
NoCall == [kind |-> "none"]

----------------------------------------------------------------------------
(* src/index.js                                                            *)

DefaultMaxStackLines == 50
DefaultMaxBodySize == 1000
DefaultMaxSize == 1000

defaultOptions ==
  Obj(<< "redact", "includeEnvironment", "includeTimestamp", "includePerformance",
         "theme", "maxStackLines", "maxBodySize", "includeUserAgent",
         "includeMemoryUsage", "generateErrorId", "severity" >>,
      << Arr(<< Str("password"), Str("token"), Str("key"), Str("secret"),
                Str("auth"), Str("authorization"), Str("cookie") >>),
         Bool(TRUE), Bool(TRUE), Bool(TRUE),
         Str("github"), Num(DefaultMaxStackLines), Num(DefaultMaxBodySize), Bool(TRUE),
         Bool(TRUE), Bool(TRUE), Str("error") >>)

ThemeKeys == << "title", "errorIcon", "stackIcon", "requestIcon", "envIcon", "separator" >>

themes ==
  Obj(<< "github", "slack", "discord" >>,
      << Obj(ThemeKeys, << Str("## (bug) Bug Report"), Str("(x)"), Str("(clipboard)"),
                           Str("(globe)"), Str("(computer)"), Str("---") >>),
         Obj(ThemeKeys, << Str("*(bug) Bug Report*"), Str(":x:"), Str(":clipboard:"),
                           Str(":globe_with_meridians:"), Str(":computer:"), Str("~~~") >>),
         Obj(ThemeKeys, << Str("## (bug) Bug Report"), Str("(x)"), Str("(clipboard)"),
                           Str("(globe)"), Str("(computer)"), Str("~~~diff") >>) >>)

\* err.stack?.split('\n')[0]: [kind |-> "throw"] when split is not callable
FirstStackLine(e) ==
  LET st == Get(e, "stack")
  IN  IF st.t \in {"undef", "null"} THEN Return(Undef)
      ELSE IF st.t = "str" THEN Return(Str(Split(st.s, "\n")[1]))
      ELSE Throw("TypeError")

\* a fingerprint salted with the time of the call
generateErrorIdTimed(e, r) ==
  IF e.t \in {"undef", "null"} THEN Throw("TypeError")
  ELSE LET errorData ==
             Obj(<< "message", "at" >>, << Get(e, "message"), Num(now) >>)
           hash == Md5Hex(JSONstringify(errorData, NoReplacer, "").s)
       IN  Return(Str("ERR-" \o ToUpperCase(Substring0(hash, 8))))

generateErrorId(e, r) ==
  IF e.t \in {"undef", "null"} THEN Throw("TypeError")
  ELSE LET first == FirstStackLine(e)
       IN  IF first.kind = "throw" THEN first
           ELSE LET errorData ==
                      Obj(<< "message", "stack", "url", "method" >>,
                          << Get(e, "message"),
                             OrElse(first.value, Str("")),
                             OrElse(OrElse(OptGet(r, "originalUrl"), OptGet(r, "url")), Str("")),
                             OrElse(OptGet(r, "method"), Str("")) >>)
                    hash == Md5Hex(JSONstringify(errorData, NoReplacer, "").s)
                IN  Return(Str("ERR-" \o ToUpperCase(Substring0(hash, 8))))

TruncatedMarker == "... [TRUNCATED]"

\* redactKeys is an array of strings, or undefined (the default [] applies);
\* maxSize is a number, or undefined (the default 1000 applies)
cleanObject(obj, redactKeys, maxSize) ==
  IF ~Truthy(obj) \/ ~TypeofObject(obj) THEN obj
  ELSE LET keys == IF redactKeys.t = "undef" THEN << >>
                   ELSE [i \in 1..Len(redactKeys.a) |-> redactKeys.a[i].s]
           size == IF maxSize.t = "undef" THEN DefaultMaxSize ELSE maxSize.n
           cleaned == JSONparse(JSONstringify(obj, RedactReplacer(keys), "").s)
           jsonString == JSONstringify(cleaned, NoReplacer, "  ").s
       IN  IF Len(jsonString) > size
           THEN Str(Substring0(JSONstringify(cleaned, NoReplacer, "").s, size)
                    \o TruncatedMarker)
           ELSE cleaned

\* Math.round(x / d) for x >= 0
RoundDiv(x, d) == (x + (d \div 2)) \div d

\* the process the library runs in: version, platform, arch, env.NODE_ENV,
\* memoryUsage() in bytes, cpuUsage() in microseconds, uptime() in milliseconds
process ==
  [version |-> "v18.19.0", platform |-> "linux", arch |-> "x64", NODE_ENV |-> Undef,
   rss |-> 52428800, heapUsed |-> 10485760, heapTotal |-> 20971520, external |-> 1048576,
   user |-> 123456, system |-> 45678, uptime |-> 1000 + now]

getPerformanceMetrics ==
  [memory |-> [rss |-> ToString(RoundDiv(process.rss, 1024 * 1024)) \o "MB",
               heapUsed |-> ToString(RoundDiv(process.heapUsed, 1024 * 1024)) \o "MB",
               heapTotal |-> ToString(RoundDiv(process.heapTotal, 1024 * 1024)) \o "MB",
               external |-> ToString(RoundDiv(process.external, 1024 * 1024)) \o "MB"],
   cpu |-> [user |-> ToString(RoundDiv(process.user, 1000)) \o "ms",
            system |-> ToString(RoundDiv(process.system, 1000)) \o "ms"],
   uptime |-> ToString(RoundDiv(process.uptime, 1000)) \o "s"]

formatSeverity(severity) ==
  LET severityMap ==
        Obj(<< "info", "warning", "error", "critical" >>,
            << Str("(bulb) INFO"), Str("(warning) WARNING"), Str("(x) ERROR"),
               Str("(siren) CRITICAL") >>)
  IN  OrElse(Get(severityMap, ToStr(severity)), Get(severityMap, "error"))

\* n in decimal, padded with zeros to w digits
RECURSIVE Pad(_, _)
Pad(str, w) == IF Len(str) >= w THEN str ELSE Pad("0" \o str, w)

\* new Date().toISOString(), within the first minute of 2025
toISOString(ms) ==
  "2025-01-01T00:00:" \o Pad(ToString((ms \div 1000) % 60), 2) \o "."
    \o Pad(ToString(ms % 1000), 3) \o "Z"

\* (endTime - startTime).toFixed(2), the difference given in microseconds
toFixed2(us) ==
  LET h == RoundDiv(us, 10)
  IN  ToString(h \div 100) \o "." \o Pad(ToString(h % 100), 2)

\* Array.prototype.slice(0, end)
SliceTo(seq, end) ==
  CASE end.t = "undef" -> seq
    [] end.n < 0       -> SubSeq(seq, 1, IF Len(seq) + end.n > 0 THEN Len(seq) + end.n ELSE 0)
    [] OTHER           -> SubSeq(seq, 1, IF end.n < Len(seq) THEN end.n ELSE Len(seq))

\* a > b for a number a: false when b is undefined (NaN)
GreaterThan(a, b) == b.t = "num" /\ a > b.n

\* a stack trace block that marks a stack of exactly maxStackLines lines too
StackSectionMarkingFull(e, theme, config) ==
  LET maxStackLines == Get(config, "maxStackLines")
      text == OrElse(Get(e, "stack"), Str("No stack trace available")).s
      stackLines == SliceTo(Split(text, "\n"), maxStackLines)
  IN  << Str(ToStr(Get(theme, "stackIcon")) \o " **Stack Trace:**"),
         Str("~~~"),
         Str(Join(stackLines, "\n")) >>
      \o (IF Truthy(Get(e, "stack"))
             /\ GreaterThan(Len(Split(Get(e, "stack").s, "\n")) + 1, maxStackLines)
          THEN << Str("... [TRUNCATED]") >> ELSE << >>)
      \o << Str("~~~"), Str("") >>

\* lines 175-186: the stack trace block
StackSection(e, theme, config) ==
  LET maxStackLines == Get(config, "maxStackLines")
      text == OrElse(Get(e, "stack"), Str("No stack trace available")).s
      stackLines == SliceTo(Split(text, "\n"), maxStackLines)
  IN  << Str(ToStr(Get(theme, "stackIcon")) \o " **Stack Trace:**"),
         Str("~~~"),
         Str(Join(stackLines, "\n")) >>
      \o (IF Truthy(Get(e, "stack"))
             /\ GreaterThan(Len(Split(Get(e, "stack").s, "\n")), maxStackLines)
          THEN << Str("... [TRUNCATED]") >> ELSE << >>)
      \o << Str("~~~"), Str("") >>

\* Object.keys(v).length > 0 for a truthy v
HasKeys(v) == Truthy(v) /\ KeyCount(v) > 0

\* lines 199-204: the body, through the redactor with config.maxBodySize
BodyBlock(r, config) ==
  IF HasKeys(Get(r, "body"))
  THEN << Str("- **Body:**"), Str("~~~json"),
          JSONstringify(cleanObject(Get(r, "body"), Get(config, "redact"),
                                    Get(config, "maxBodySize")),
                        NoReplacer, "  "),
          Str("~~~") >>
  ELSE << >>

\* lines 206-211: the query, through the redactor with its default size
QueryBlock(r, config) ==
  IF HasKeys(Get(r, "query"))
  THEN << Str("- **Query Parameters:**"), Str("~~~json"),
          JSONstringify(cleanObject(Get(r, "query"), Get(config, "redact"), Undef),
                        NoReplacer, "  "),
          Str("~~~") >>
  ELSE << >>

\* lines 213-218: the route parameters, as they are
ParamsBlock(r) ==
  IF HasKeys(Get(r, "params"))
  THEN << Str("- **Route Parameters:**"), Str("~~~json"),
          JSONstringify(Get(r, "params"), NoReplacer, "  "),
          Str("~~~") >>
  ELSE << >>

\* a headers block left out when the request has no headers
HeadersBlockIfPresent(r, config) ==
  IF HasKeys(Get(r, "headers"))
  THEN << Str("- **Headers:**"), Str("~~~json"),
          JSONstringify(cleanObject(Get(r, "headers"), Get(config, "redact"), Undef),
                        NoReplacer, "  "),
          Str("~~~"), Str("") >>
  ELSE << Str("") >>

\* lines 220-225: the headers, through the redactor with its default size
HeadersBlock(r, config) ==
  << Str("- **Headers:**"), Str("~~~json"),
     JSONstringify(cleanObject(Get(r, "headers"), Get(config, "redact"), Undef),
                   NoReplacer, "  "),
     Str("~~~"), Str("") >>

\* lines 188-226: the request details
RequestSection(r, theme, config) ==
  IF ~Truthy(r) THEN << >>
  ELSE
    LET headers == Get(r, "headers")
    IN  << Str(ToStr(Get(theme, "requestIcon")) \o " **Request Details:**"),
           Str("- **Method:** ~" \o ToStr(Get(r, "method")) \o "~"),
           Str("- **URL:** ~" \o ToStr(OrElse(Get(r, "originalUrl"), Get(r, "url"))) \o "~"),
           Str("- **IP:** ~"
               \o ToStr(OrElse(OrElse(Get(r, "ip"),
                                      OptGet(Get(r, "connection"), "remoteAddress")),
                               Str("unknown")))
               \o "~") >>
        \o (IF Truthy(Get(config, "includeUserAgent")) /\ Truthy(OptGet(headers, "user-agent"))
            THEN << Str("- **User Agent:** ~" \o ToStr(Get(headers, "user-agent")) \o "~") >>
            ELSE << >>)
        \o BodyBlock(r, config)
        \o QueryBlock(r, config)
        \o ParamsBlock(r)
        \o HeadersBlock(r, config)

\* lines 228-247: the environment information
EnvironmentSection(theme, config) ==
  IF ~Truthy(Get(config, "includeEnvironment")) THEN << >>
  ELSE
    LET perf == getPerformanceMetrics
    IN  << Str(ToStr(Get(theme, "envIcon")) \o " **Environment:**"),
           Str("- **Node.js Version:** ~" \o process.version \o "~"),
           Str("- **Platform:** ~" \o process.platform \o " " \o process.arch \o "~"),
           Str("- **Environment:** ~"
               \o ToStr(OrElse(process.NODE_ENV, Str("development"))) \o "~") >>
        \o (IF Truthy(Get(config, "appVersion"))
            THEN << Str("- **App Version:** ~" \o ToStr(Get(config, "appVersion")) \o "~") >>
            ELSE << >>)
        \o (IF Truthy(Get(config, "includeMemoryUsage"))
            THEN << Str("- **Memory Usage:** RSS: ~" \o perf.memory.rss \o "~, Heap: ~"
                        \o perf.memory.heapUsed \o "/" \o perf.memory.heapTotal \o "~"),
                    Str("- **CPU Usage:** User: ~" \o perf.cpu.user \o "~, System: ~"
                        \o perf.cpu.system \o "~"),
                    Str("- **Process Uptime:** ~" \o perf.uptime \o "~") >>
            ELSE << >>)
        \o << Str("") >>

\* the md array of errorToMarkdown for an error that is not null or undefined
\* and whose stack, when truthy, is a string
ReportLines(e, r, config, theme, errorId) ==
  LET timestamp == IF Truthy(Get(config, "includeTimestamp"))
                   THEN Str(toISOString(now)) ELSE Null
  IN  << Get(theme, "title") >>
      \o (IF Truthy(errorId) THEN << Str("**Error ID:** ~" \o ToStr(errorId) \o "~") >>
          ELSE << >>)
      \o (IF Truthy(timestamp) THEN << Str("**Timestamp:** ~" \o ToStr(timestamp) \o "~") >>
          ELSE << >>)
      \o << Str(""),
            Str("**Severity:** " \o ToStr(formatSeverity(Get(config, "severity")))),
            Str(""),
            Str(ToStr(Get(theme, "errorIcon")) \o " **Error Message:**"),
            Str("~~~\n" \o ToStr(OrElse(Get(e, "message"), Str("Unknown Error"))) \o "\n~~~"),
            Str("") >>
      \o (IF Truthy(Get(e, "name")) /\ Get(e, "name") # Str("Error")
          THEN << Str("**Error Type:** ~" \o ToStr(Get(e, "name")) \o "~"), Str("") >>
          ELSE << >>)
      \o (IF Truthy(Get(e, "code"))
          THEN << Str("**Error Code:** ~" \o ToStr(Get(e, "code")) \o "~"), Str("") >>
          ELSE << >>)
      \o StackSection(e, theme, config)
      \o RequestSection(r, theme, config)
      \o EnvironmentSection(theme, config)
      \o (IF Truthy(Get(config, "includePerformance"))
          THEN << Str("(zap) **Report Generation Time:** ~" \o toFixed2(elapsed) \o "ms~"),
                  Str("") >>
          ELSE << >>)
      \o << Get(theme, "separator"),
            Str("*Generated by [error-to-md](https://github.com/imankii01/error-to-md) (rocket)*") >>

\* errorToMarkdown(err, req = null, options = {}): the report returned, or
\* the TypeError thrown by a property read of null or undefined, or by a
\* call of split on a stack that is not a string
errorToMarkdown(e, r0, o0) ==
  LET r == IF r0.t = "undef" THEN Null ELSE r0
      o == IF o0.t = "undef" THEN EmptyObj ELSE o0
      stack == OptGet(e, "stack")
  IN  CHOOSE result \in UNION {
        { IF id.kind = "throw" THEN id
          ELSE IF e.t \in {"undef", "null"} THEN Throw("TypeError")
          ELSE IF Truthy(stack) /\ stack.t # "str" THEN Throw("TypeError")
          ELSE Return(Str(JoinValues(ReportLines(e, r, config, theme, id.value)))) :
            theme \in { OrElse(Get(themes, ToStr(Get(config, "theme"))),
                               Get(themes, "github")) },
            id \in { IF Truthy(Get(config, "generateErrorId"))
                     THEN generateErrorId(e, r) ELSE Return(Null) } } :
          config \in { Spread(defaultOptions, o) } } : TRUE

\* an object literal of the given <<key, value>> pairs
MkBody(pairs) ==
  Obj([i \in 1..Len(pairs) |-> pairs[i][1]], [i \in 1..Len(pairs) |-> pairs[i][2]])

\* a call made to the outside: console.error, the logger, a method of res, next
Event(op, args) == [op |-> op, args |-> args]

\* line 266: the configuration the middleware of expressErrorToMd(options) holds
expressErrorToMd(o0) ==
  Spread(defaultOptions, IF o0.t = "undef" THEN EmptyObj ELSE o0)

\* lines 288-294: the object given to res.json
JsonBody(config, e, r) ==
  IF process.NODE_ENV = Str("development")
  THEN CHOOSE body \in
         { IF id.kind = "throw" THEN id
           ELSE Return(MkBody(<< <<"error", Str("Internal Server Error")>>,
                                 <<"message", Get(e, "message")>>,
                                 <<"errorId", id.value>> >>)) :
             id \in { IF Truthy(Get(config, "generateErrorId"))
                      THEN generateErrorId(e, r) ELSE Return(Undef) } } : TRUE
  ELSE Return(MkBody(<< <<"error", Str("Internal Server Error")>> >>))

\* a response that prefers err.statusCode to err.status
SendResponseStatusCodeFirst(config, e, markdown, body) ==
  LET statusCode == OrElse(OrElse(Get(e, "statusCode"), Get(e, "status")), Num(500))
      status == << Event("res.status", << statusCode >>) >>
  IN  IF Truthy(Get(config, "sendMarkdown"))
      THEN [calls |-> status \o << Event("res.type", << Str("text/markdown") >>),
                                   Event("res.send", << Str(markdown) >>) >>,
            sent |-> TRUE, outcome |-> Return(Undef)]
      ELSE [calls |-> status \o << Event("res.json", << body.value >>) >>,
            sent |-> TRUE, outcome |-> Return(Undef)]

\* lines 280-296: the response, for a response whose headers are not sent,
\* given the outcome body of building the object for res.json
SendResponse(config, e, markdown, body) ==
  LET statusCode == OrElse(OrElse(Get(e, "status"), Get(e, "statusCode")), Num(500))
      status == << Event("res.status", << statusCode >>) >>
  IN  IF Truthy(Get(config, "sendMarkdown"))
      THEN [calls |-> status \o << Event("res.type", << Str("text/markdown") >>),
                                   Event("res.send", << Str(markdown) >>) >>,
            sent |-> TRUE, outcome |-> Return(Undef)]
      ELSE IF body.kind = "throw"
      THEN [calls |-> status, sent |-> FALSE, outcome |-> body]
      ELSE [calls |-> status \o << Event("res.json", << body.value >>) >>,
            sent |-> TRUE, outcome |-> Return(Undef)]

\* lines 271-278: the report written to console.error and given to the logger
LogReport(config, e, r, markdown) ==
  << Event("console.error", << Str("\n" \o markdown \o "\n") >>) >>
  \o (IF Truthy(Get(config, "logger")) /\ Get(config, "logger").t = "fun"
      THEN << Event("logger", << Str(markdown), e, r >>) >>
      ELSE << >>)

\* a middleware that hands the error on with next(err) when the response
\* has begun
MiddlewareDelegating(md, sending, config, e, r, rs) ==
  IF md.kind = "throw"
  THEN [calls |-> << >>, res |-> rs, outcome |-> md]
  ELSE IF rs.headersSent
  THEN [calls |-> LogReport(config, e, r, md.value.s) \o << Event("next", << e >>) >>,
        res |-> rs, outcome |-> Return(Undef)]
  ELSE [calls |-> LogReport(config, e, r, md.value.s) \o sending.calls,
        res |-> [rs EXCEPT !.headersSent = sending.sent],
        outcome |-> sending.outcome]

\* lines 270-296: the middleware after errorToMarkdown has ended with md, and
\* sending, the response it would give
MiddlewareAfter(md, sending, config, e, r, rs) ==
  IF md.kind = "throw"
  THEN [calls |-> << >>, res |-> rs, outcome |-> md]
  ELSE IF rs.headersSent
  THEN [calls |-> LogReport(config, e, r, md.value.s), res |-> rs,
        outcome |-> Return(Undef)]
  ELSE [calls |-> LogReport(config, e, r, md.value.s) \o sending.calls,
        res |-> [rs EXCEPT !.headersSent = sending.sent],
        outcome |-> sending.outcome]

\* lines 269-297: the middleware (err, req, res, next) of expressErrorToMd, as
\* the calls it makes in order, the response it leaves and how it ends
Middleware(config, e, r, rs) ==
  CHOOSE m \in
    { MiddlewareAfter(md,
                      IF md.kind = "throw" THEN md
                      ELSE CHOOSE sending \in
                             { SendResponse(config, e, md.value.s, body) :
                                 body \in {JsonBody(config, e, r)} } : TRUE,
                      config, e, r, rs) :
        md \in {errorToMarkdown(e, r, config)} } : TRUE

\* lines 308-312: the catch block after errorToMarkdown has ended with md
CatchAfter(md, e) ==
  IF md.kind = "throw"
  THEN [calls |-> << >>, outcome |-> md]
  ELSE [calls |-> << Event("console.error", << Str("\n" \o md.value.s \o "\n") >>),
                     Event("next", << e >>) >>,
        outcome |-> Return(Undef)]

\* lines 308-312: the catch block of the handler made by asyncErrorToMd
CatchBlock(e, r, o) ==
  CHOOSE c \in { CatchAfter(md, e) : md \in {errorToMarkdown(e, r, o)} } : TRUE

----------------------------------------------------------------------------
(* src/cli.js                                                              *)

\* String.prototype.trim, for the white space of JSON texts
Trim(s) ==
  LET inked == { i \in 1..Len(s) : CharAt(s, i) \notin {" ", "\n", "\t", "\r"} }
  IN  IF inked = {} THEN ""
      ELSE SubSeq(s, CHOOSE i \in inked : \A j \in inked : i <= j,
                     CHOOSE i \in inked : \A j \in inked : j <= i)

\* JSON.parse(text): the value, or the SyntaxError of a text that is no JSON.
\* The scanners return the index after the construct they read, 0 when it is
\* malformed. Texts are compact, as JSON.stringify writes them, with white
\* space at their ends only, and their numbers are integers.
JSONparseText(text) ==
  LET t == Trim(text)
      ch(i) == IF i \in 1..Len(t) THEN CharAt(t, i) ELSE ""
      word(i, w) == IF i + Len(w) - 1 <= Len(t) /\ SubSeq(t, i, i + Len(w) - 1) = w
                    THEN i + Len(w) ELSE 0
      RECURSIVE scanString(_), scanDigits(_), scanValue(_), scanMembers(_), scanElements(_)
      scanString(i) ==
        CASE ch(i) \in {"", "\n", "\t", "\r"} -> 0
          [] ch(i) = "\"" -> i + 1
          [] ch(i) = "\\" -> IF ch(i + 1) \in {"\"", "\\", "/", "b", "f", "n", "r", "t"}
                             THEN scanString(i + 2) ELSE 0
          [] OTHER -> scanString(i + 1)
      scanDigits(i) == IF ch(i) # "" /\ IsDigit(ch(i)) THEN scanDigits(i + 1) ELSE i
      scanValue(i) ==
        CASE ch(i) = "{" -> IF ch(i + 1) = "}" THEN i + 2 ELSE scanMembers(i + 1)
          [] ch(i) = "[" -> IF ch(i + 1) = "]" THEN i + 2 ELSE scanElements(i + 1)
          [] ch(i) = "\"" -> scanString(i + 1)
          [] ch(i) = "t" -> word(i, "true")
          [] ch(i) = "f" -> word(i, "false")
          [] ch(i) = "n" -> word(i, "null")
          [] ch(i) = "-" -> IF ch(i + 1) # "" /\ IsDigit(ch(i + 1))
                            THEN scanDigits(i + 1) ELSE 0
          [] ch(i) = "0" -> i + 1
          [] ch(i) # "" /\ IsDigit(ch(i)) -> scanDigits(i)
          [] OTHER -> 0
      scanMembers(i) ==
        IF ch(i) # "\"" THEN 0
        ELSE LET key == scanString(i + 1)
                 val == IF key = 0 \/ ch(key) # ":" THEN 0 ELSE scanValue(key + 1)
             IN  IF val = 0 THEN 0
                 ELSE IF ch(val) = "," THEN scanMembers(val + 1)
                 ELSE IF ch(val) = "}" THEN val + 1
                 ELSE 0
      scanElements(i) ==
        LET val == scanValue(i)
        IN  IF val = 0 THEN 0
            ELSE IF ch(val) = "," THEN scanElements(val + 1)
            ELSE IF ch(val) = "]" THEN val + 1
            ELSE 0
  IN  IF scanValue(1) = Len(t) + 1 THEN Return(JSONparse(t)) ELSE Throw("SyntaxError")

\* an Error made from anything, null and undefined read as an empty object
createErrorFromAnything(errorObj) ==
  LET message == ToStr(OrElse(OptGet(errorObj, "message"), Str("Unknown error")))
      stack == "Error: " \o message \o "\n    at createErrorFromObject (index.js:319:15)"
  IN  Return(Obj(<< "stack", "message", "name", "code" >>,
                 << OrElse(OptGet(errorObj, "stack"), Str(stack)),
                    Str(message),
                    OrElse(OptGet(errorObj, "name"), Str("Error")),
                    OptGet(errorObj, "code") >>))

\* src/index.js lines 318-324, createErrorFromObject(errorObj): the Error made,
\* with the stack V8 gives it when the object brings none, or the TypeError
\* of reading a property of null
createErrorFromObject(errorObj) ==
  IF errorObj.t \in {"undef", "null"} THEN Throw("TypeError")
  ELSE LET message == ToStr(OrElse(Get(errorObj, "message"), Str("Unknown error")))
           stack == "Error: " \o message \o "\n    at createErrorFromObject (index.js:319:15)"
       IN  Return(Obj(<< "stack", "message", "name", "code" >>,
                      << OrElse(Get(errorObj, "stack"), Str(stack)),
                         Str(message),
                         OrElse(Get(errorObj, "name"), Str("Error")),
                         Get(errorObj, "code") >>))

\* lines 47-78, generateDemo(options)
generateDemo(o) ==
  LET demoError ==
        Obj(<< "stack", "message", "name", "code" >>,
            << Str(Join(<< "ConnectionTimeoutError: Database connection timeout",
                           "    at Database.connect (/app/src/database.js:42:15)",
                           "    at UserService.getUser (/app/src/services/user.js:28:18)",
                           "    at UserController.profile (/app/src/controllers/user.js:15:12)",
                           "    at /app/src/routes/api.js:23:5",
                           "    at processTicksAndRejections (node:internal/process/task_queues:96:5)" >>,
                        "\n")),
               Str("Database connection timeout"),
               Str("ConnectionTimeoutError"),
               Str("ETIMEDOUT") >>)
      demoRequest ==
        Obj(<< "method", "originalUrl", "url", "ip", "headers", "query", "params" >>,
            << Str("GET"), Str("/api/user/profile"), Str("/api/user/profile"),
               Str("192.168.1.100"),
               Obj(<< "user-agent", "accept", "authorization", "x-forwarded-for" >>,
                   << Str("Mozilla/5.0 (Mac OS X) Chrome/91.0.4472.124"),
                      Str("application/json"), Str("Bearer jwt-token-here"),
                      Str("203.0.113.195") >>),
               Obj(<< "include" >>, << Str("preferences") >>),
               Obj(<< "userId" >>, << Str("12345") >>) >>)
  IN  errorToMarkdown(demoError, demoRequest,
                      Spread(Obj(<< "appVersion", "severity" >>,
                                 << Str("2.1.3"), Str("error") >>), o))

\* lines 80-148, parseArgs() over process.argv.slice(2): early is "help" or
\* "version" when the loop ends the process at that flag
parseArgs(args) ==
  LET arg(i) == IF i <= Len(args) THEN Str(args[i]) ELSE Undef
      RECURSIVE loop(_, _)
      loop(i, p) ==
        IF i > Len(args) THEN p
        ELSE CASE args[i] \in {"-h", "--help"} -> [p EXCEPT !.early = "help"]
               [] args[i] \in {"-v", "--version"} -> [p EXCEPT !.early = "version"]
               [] args[i] = "--demo" -> loop(i + 1, [p EXCEPT !.showDemo = TRUE])
               [] args[i] \in {"-o", "--output"} ->
                    loop(i + 2, [p EXCEPT !.outputFile = arg(i + 1)])
               [] args[i] \in {"-t", "--theme"} ->
                    loop(i + 2, [p EXCEPT !.options = Put(@, "theme", arg(i + 1))])
               [] args[i] = "--severity" ->
                    loop(i + 2, [p EXCEPT !.options = Put(@, "severity", arg(i + 1))])
               [] args[i] = "--app-version" ->
                    loop(i + 2, [p EXCEPT !.options = Put(@, "appVersion", arg(i + 1))])
               [] args[i] = "--no-env" ->
                    loop(i + 1, [p EXCEPT !.options = Put(@, "includeEnvironment", Bool(FALSE))])
               [] args[i] = "--no-timestamp" ->
                    loop(i + 1, [p EXCEPT !.options = Put(@, "includeTimestamp", Bool(FALSE))])
               [] OTHER ->
                    loop(i + 1, IF StartsWith(args[i], "-") THEN p
                                ELSE [p EXCEPT !.inputFile = Str(args[i])])
  IN  loop(1, [inputFile |-> Null, outputFile |-> Null, showDemo |-> FALSE, early |-> "",
               options |-> Obj(<< "theme", "includeEnvironment", "includeTimestamp", "severity" >>,
                               << Str("github"), Bool(TRUE), Bool(TRUE), Str("error") >>)])

\* lines 162-167 and 184-188: the report for the JSON text of an error
ReportFromText(text, o) ==
  CHOOSE result \in UNION {
    { IF errorObj.kind = "throw" THEN errorObj
      ELSE IF error.kind = "throw" THEN error
      ELSE errorToMarkdown(error.value, OrElse(Get(errorObj.value, "request"), Null), o) :
        error \in { IF errorObj.kind = "throw" THEN errorObj
                    ELSE createErrorFromObject(errorObj.value) } } :
      errorObj \in { JSONparseText(text) } } : TRUE

\* lines 190-195 and 206-211: the report goes to the output file or to stdout
WriteReport(markdown, outputFile) ==
  IF Truthy(outputFile)
  THEN << Event("writeFileSync", << outputFile, Str(markdown) >>),
          Event("console.error",
                << Str("(check) Markdown report saved to: " \o ToStr(outputFile)) >>) >>
  ELSE << Event("console.log", << Str(markdown) >>) >>

\* the run after its report was built or failed to be built: written and
\* ended with status 0, or the failure told on stderr, as the catch block
\* failure tells each kind of error, and process.exit(1)
Finish(built, outputFile, failure) ==
  IF built.kind = "throw"
  THEN [calls |-> failure[built.error] \o << Event("process.exit", << Num(1) >>) >>,
        pc |-> "exited", exit |-> Num(1)]
  ELSE [calls |-> WriteReport(built.value.s, outputFile), pc |-> "exited", exit |-> Num(0)]

\* lines 150-224, main(): the calls it makes, how the run stands after them
\* ("reading": the listeners on stdin are set and main has returned), and the
\* exit status when the run has ended
main(c) ==
  LET MainCatch == [error \in {"ENOENT", "SyntaxError", "TypeError"} |->
        \* lines 213-222: the catch block
        << Event("console.error", << Str("(x) Error:"), Str(error) >>) >>
        \o (IF error = "ENOENT"
            THEN << Event("console.error",
                     << Str("(bulb) Tip: Make sure the input file exists and is readable.") >>) >>
            ELSE IF error = "SyntaxError"
            THEN << Event("console.error",
                     << Str("(bulb) Tip: Make sure the input file contains valid JSON.") >>) >>
            ELSE << >>)]
  IN
  CHOOSE m \in
    { IF p.early = "help"
      THEN [calls |-> << Event("console.log", << Str("(bug) error-to-md CLI v1.0.0") >>),
                         Event("process.exit", << Num(0) >>) >>,
            pc |-> "exited", exit |-> Num(0)]
      ELSE IF p.early = "version"
      THEN [calls |-> << Event("console.log", << Str("v1.0.0") >>),
                         Event("process.exit", << Num(0) >>) >>,
            pc |-> "exited", exit |-> Num(0)]
      ELSE IF p.showDemo
      THEN Finish(generateDemo(p.options), p.outputFile, MainCatch)
      ELSE IF Truthy(p.inputFile)
      THEN Finish(IF HasOwn(c.files, p.inputFile.s)
                  THEN ReportFromText(Get(c.files, p.inputFile.s).s, p.options)
                  ELSE Throw("ENOENT"),
                  p.outputFile, MainCatch)
      ELSE IF c.isTTY
      THEN [calls |-> << Event("console.error",
                           << Str("(x) Error: No input provided. Use --help for usage information.") >>),
                         Event("process.exit", << Num(1) >>) >>,
            pc |-> "exited", exit |-> Num(1)]
      ELSE [calls |-> << >>, pc |-> "reading", exit |-> Undef] :
        p \in { parseArgs(c.argv) } } : TRUE

\* lines 182-200: the listener for the end of stdin
StdinEnd(c) ==
  CHOOSE m \in
    { Finish(ReportFromText(Trim(c.stdin), p.options), p.outputFile,
             \* lines 196-199: the catch block
             [error \in {"SyntaxError", "TypeError"} |->
                << Event("console.error",
                         << Str("(x) Error parsing JSON from stdin:"), Str(error) >>) >>]) :
        p \in { parseArgs(c.argv) } } : TRUE

----------------------------------------------------------------------------
(* The inputs: what a caller passes in.                                    *)

MaxStackLen == 4   \* a stack has up to this many lines
MaxCap == 3        \* maxStackLines is 0 .. MaxCap
MaxDepth == 2      \* a sensitive key lies up to this deep in a body
MaxTicks == 1      \* the clock advances up to this many times
TickMs == 1500

\* an object of the given <<key, value>> pairs, the undefined ones left out
MkObj(pairs) ==
  LET present == SelectSeq(pairs, LAMBDA q : q[2].t # "undef")
  IN  Obj([i \in 1..Len(present) |-> present[i][1]],
          [i \in 1..Len(present) |-> present[i][2]])

\* a stack of n lines, as V8 writes it
StackText(n) ==
  Join([i \in 1..n |->
          IF i = 1 THEN "Error: boom"
          ELSE "    at fn" \o ToString(i - 1) \o " (app.js:" \o ToString(i - 1) \o ":1)"],
       "\n")

Stacks == {Undef, Str("")} \cup {Str(StackText(n)) : n \in 1..MaxStackLen}

MkErr(message, name, code, stack) ==
  MkObj(<< <<"message", message>>, <<"name", name>>, <<"code", code>>, <<"stack", stack>> >>)

BaseErr == MkErr(Str("boom"), Str("Error"), Undef, Str(StackText(2)))

\* errors: every combination of absent fields, and values that are no objects
ErrObjects ==
  { MkErr(m, n, c, st) :
      m \in {Undef, Str(""), Str("boom")},
      n \in {Undef, Str("Error"), Str("TypeError")},
      c \in {Undef, Str("ENOENT"), Num(0), Num(7)},
      st \in {Undef, Str(StackText(2))} }

ErrValues == {Undef, Null, Num(42), Str("oops")} \cup ErrObjects

Secret == "hunter2"

\* {user: {profile: ... {apiKey: Secret} ...}}, the sensitive key d objects deep
RECURSIVE Nested(_)
Nested(d) ==
  IF d = 0 THEN Obj(<< "note", "apiKey" >>, << Str("ok"), Str(Secret) >>)
  ELSE Obj(<< "user" >>, << Nested(d - 1) >>)

Bodies ==
  { Undef, EmptyObj, Arr(<< >>), Str("raw text"),
    Obj(<< "name", "password" >>, << Str("John Doe"), Str(Secret) >>),
    Arr(<< Obj(<< "id", "Token" >>, << Num(1), Str(Secret) >>), Str("x") >>),
    Obj(<< "data" >>, << Str("xxxxxxxxxxxxxxxxxxxxxxxxxxxxxx") >>) }
  \cup { Nested(d) : d \in 1..MaxDepth }

Queries ==
  { Undef, EmptyObj,
    Obj(<< "include" >>, << Str("profile") >>),
    Obj(<< "q", "access_token" >>, << Str("yyyyyyyyyyyyyyyyyyyyyyyyyyyyyy"), Str(Secret) >>) }

Params ==
  { Undef, EmptyObj, Obj(<< "id" >>, << Str("12345") >>) }

HeaderSets ==
  { Undef, EmptyObj,
    Obj(<< "content-type", "Authorization" >>,
        << Str("application/json"), Str("Bearer " \o Secret) >>),
    Obj(<< "content-type", "user-agent" >>,
        << Str("application/json"), Str("Mozilla/5.0 " \o Secret) >>) }

MkReq(method, originalUrl, url, body, query, params, headers) ==
  MkObj(<< <<"method", method>>, <<"originalUrl", originalUrl>>, <<"url", url>>,
           <<"ip", Str("127.0.0.1")>>, <<"body", body>>, <<"query", query>>,
           <<"params", params>>, <<"headers", headers>> >>)

BaseReq(body, query, params, headers) ==
  MkReq(Str("POST"), Str("/api/users"), Str("/users"), body, query, params, headers)

\* requests: each field over its values, the others absent or at a base value
Requests ==
  { Null, Undef, EmptyObj }
  \cup { BaseReq(b, Undef, Undef, Undef) : b \in Bodies }
  \cup { BaseReq(Undef, q, Undef, Undef) : q \in Queries }
  \cup { BaseReq(Undef, Undef, pa, Undef) : pa \in Params }
  \cup { BaseReq(Undef, Undef, Undef, h) : h \in HeaderSets }
  \cup { BaseReq(b, q, pa, h) :
           b \in {EmptyObj, Obj(<< "name", "password" >>, << Str("John Doe"), Str(Secret) >>)},
           q \in {EmptyObj, Obj(<< "include" >>, << Str("profile") >>)},
           pa \in {EmptyObj, Obj(<< "id" >>, << Str("12345") >>)},
           h \in {Obj(<< "content-type", "Authorization" >>,
                      << Str("application/json"), Str("Bearer " \o Secret) >>)} }

DenyLists ==
  { Undef,
    Arr(<< Str("pass"), Str("KEY"), Str("token"), Str("auth") >>),
    Arr(<< Str("agent") >>) }

SizeCaps == {Undef, Num(10), Num(40)}

\* options that bear on the request details
RequestOptions ==
  { MkObj(<< <<"redact", d>>, <<"maxBodySize", m>>, <<"includeUserAgent", ua>>,
             <<"includeEnvironment", Bool(FALSE)>> >>) :
      d \in DenyLists, m \in SizeCaps, ua \in {Undef, Bool(FALSE)} }

ThemeNames ==
  { Undef, Str(""), Str("github"), Str("slack"), Str("discord"), Str("GitHub"),
    Str("teams"), Str("constructor"), Str("toString"), Str("__proto__") }

Severities ==
  { Undef, Str(""), Str("info"), Str("warning"), Str("error"), Str("critical"),
    Str("fatal"), Str("constructor") }

Flags == {Undef, Bool(FALSE)}

\* options that bear on the frame of the report
FrameOptions ==
  { MkObj(<< <<"theme", th>>, <<"severity", sv>> >>) : th \in ThemeNames, sv \in Severities }
  \cup
  { MkObj(<< <<"generateErrorId", g>>, <<"includeTimestamp", ts>>,
             <<"includeEnvironment", env>>, <<"includeMemoryUsage", mem>>,
             <<"includePerformance", pf>>, <<"appVersion", av>> >>) :
      g \in Flags, ts \in Flags, env \in Flags, mem \in Flags, pf \in Flags,
      av \in {Undef, Str("2.1.0")} }

StackOptions == {Undef} \cup { MkObj(<< <<"maxStackLines", Num(k)>> >>) : k \in 0..MaxCap }

\* the calls errorToMarkdown(err, req, options) of the model
ReportCalls ==
  { << e, Null, Undef >> : e \in ErrValues }
  \cup { << MkErr(Str("boom"), Str("Error"), Undef, st), Null, o >> :
           st \in Stacks, o \in StackOptions }
  \cup { << BaseErr, r, o >> : r \in Requests, o \in RequestOptions }
  \cup { << BaseErr, r, o >> : r \in {Undef, BaseReq(Undef, Undef, Undef, Undef)},
                               o \in FrameOptions }

----------------------------------------------------------------------------
(* The specification of the report builder: a caller holds an error, a     *)
(* request and options, the clock runs, and errorToMarkdown is called.     *)

Durations == {7, 1234}

NoArgs == [obj |-> Undef, redactKeys |-> Undef, maxSize |-> Undef]

\* no middleware made, no response begun, nothing called, no request under
\* way, no run of the command-line tool
NoServer ==
  /\ mw = Undef
  /\ res = [headersSent |-> FALSE]
  /\ trace = << >>
  /\ pc = "idle"
  /\ cli = [argv |-> << >>, files |-> EmptyObj, stdin |-> "", isTTY |-> TRUE, exit |-> Undef]

Init ==
  /\ \E c \in ReportCalls : err = c[1] /\ req = c[2] /\ options = c[3]
  /\ now = 0
  /\ elapsed = 7
  /\ out = NoCall
  /\ idLog = << >>
  /\ cleanArgs = NoArgs
  /\ NoServer

\* time passes; the next call takes some time of its own
Tick ==
  /\ now < MaxTicks * TickMs
  /\ now' = now + TickMs
  /\ \E d \in Durations : elapsed' = d
  /\ UNCHANGED << err, req, options, out, idLog, cleanArgs >>
  /\ UNCHANGED << mw, res, trace, pc, cli >>

\* the caller calls errorToMarkdown(err, req, options)
ErrorToMarkdown ==
  /\ out = NoCall
  /\ out' = errorToMarkdown(err, req, options)
  /\ UNCHANGED << err, req, options, now, elapsed, idLog, cleanArgs >>
  /\ UNCHANGED << mw, res, trace, pc, cli >>

Next == Tick \/ ErrorToMarkdown

Spec == Init /\ [][Next]_vars

----------------------------------------------------------------------------
(* The specification of the redactor: a caller calls cleanObject directly. *)

CleanObjects ==
  Bodies \cup Queries \cup HeaderSets
  \cup { Null, Num(7), Obj(<< "a" >>, << Num(1) >>),
         Obj(<< "list" >>, << Arr(<< Num(1), Undef, Null, Bool(TRUE) >>) >>) }

\* the calls cleanObject(obj, redactKeys, maxSize) of the model
CleanCalls ==
  { [obj |-> o, redactKeys |-> d, maxSize |-> m] :
      o \in CleanObjects, d \in DenyLists \cup {Arr(<< >>)}, m \in SizeCaps }

InitClean ==
  /\ cleanArgs \in CleanCalls
  /\ err = Undef /\ req = Undef /\ options = Undef
  /\ now = 0
  /\ elapsed = 7
  /\ out = NoCall
  /\ idLog = << >>
  /\ NoServer

\* the caller calls cleanObject(obj, redactKeys, maxSize)
CleanObject ==
  /\ out = NoCall
  /\ out' = Return(cleanObject(cleanArgs.obj, cleanArgs.redactKeys, cleanArgs.maxSize))
  /\ UNCHANGED << err, req, options, now, elapsed, idLog, cleanArgs >>
  /\ UNCHANGED << mw, res, trace, pc, cli >>

NextClean == CleanObject

SpecClean == InitClean /\ [][NextClean]_vars

----------------------------------------------------------------------------
(* The specification of the fingerprinter: a caller calls generateErrorId  *)
(* on the same error and request again and again while the clock runs.     *)

MaxCalls == 2      \* generateErrorId is called up to this many times

IdErrors ==
  { Null, Num(42) }
  \cup { MkErr(m, Str("Error"), Undef, st) :
           m \in {Undef, Str(""), Str("boom")},
           st \in {Undef, Str(StackText(1)), Str(StackText(2))} }

IdRequests ==
  { Null, EmptyObj,
    MkReq(Str("GET"), Undef, Str("/users"), Undef, Undef, Undef, Undef),
    MkReq(Str("GET"), Str("/api/users"), Str("/users"), Undef, Undef, Undef, Undef) }

\* the calls generateErrorId(err, req) of the model
IdCalls == IdErrors \X IdRequests

InitId ==
  /\ \E c \in IdCalls : err = c[1] /\ req = c[2]
  /\ options = Undef
  /\ now = 0
  /\ elapsed = 7
  /\ out = NoCall
  /\ idLog = << >>
  /\ cleanArgs = NoArgs
  /\ NoServer

\* the caller calls generateErrorId(err, req); the log keeps when and what
GenerateErrorId ==
  /\ Len(idLog) < MaxCalls
  /\ out' = generateErrorId(err, req)
  /\ idLog' = Append(idLog, [at |-> now, res |-> out'])
  /\ UNCHANGED << err, req, options, now, elapsed, cleanArgs >>
  /\ UNCHANGED << mw, res, trace, pc, cli >>

NextId == Tick \/ GenerateErrorId

SpecId == InitId /\ [][NextId]_vars

----------------------------------------------------------------------------
(* The specification of the server: expressErrorToMd(options) makes the    *)
(* error middleware, a request comes to a handler wrapped by               *)
(* asyncErrorToMd(fn, options), the handler resolves or rejects with err,  *)
(* and the error the wrapper forwards with next(err) comes to the          *)
(* middleware.                                                             *)

\* an error as http-errors makes it, with a status and a statusCode
HttpErr(status, statusCode) ==
  MkObj(<< <<"message", Str("boom")>>, <<"name", Str("Error")>>,
           <<"stack", Str(StackText(2))>>, <<"status", status>>,
           <<"statusCode", statusCode>> >>)

\* the values a handler throws or rejects with
Thrown ==
  { HttpErr(Undef, Undef), HttpErr(Num(404), Undef), HttpErr(Undef, Num(503)),
    HttpErr(Num(0), Num(400)), HttpErr(Num(404), Num(503)),
    Str("oops"), Null, Undef }

ServerRequests ==
  { BaseReq(Obj(<< "name", "password" >>, << Str("John Doe"), Str(Secret) >>),
            Undef, Undef, Undef),
    EmptyObj }

Loggers == { Undef, Fun("logger"), Str("log") }

ServerOptions ==
  { Undef }
  \cup { MkObj(<< <<"logger", lg>>, <<"sendMarkdown", sm>>, <<"redact", d>>,
                  <<"includeEnvironment", Bool(FALSE)>> >>) :
           lg \in Loggers, sm \in {Undef, Bool(TRUE)},
           d \in {Undef, Arr(<< Str("agent") >>)} }

InitServer ==
  /\ err \in Thrown
  /\ req \in ServerRequests
  /\ options \in ServerOptions
  /\ now = 0
  /\ elapsed = 7
  /\ out = NoCall
  /\ idLog = << >>
  /\ cleanArgs = NoArgs
  /\ NoServer

\* app.use(expressErrorToMd(options))
CreateMiddleware ==
  /\ mw = Undef
  /\ mw' = expressErrorToMd(options)
  /\ UNCHANGED << err, req, options, now, elapsed, out, idLog, cleanArgs, res, trace, pc, cli >>

\* a request comes in: the wrapped handler calls fn(req, res, next) and awaits it
WrapperCall ==
  /\ mw # Undef
  /\ pc = "idle"
  /\ pc' = "awaiting"
  /\ trace' = Append(trace, Event("fn", << req >>))
  /\ UNCHANGED << err, req, options, now, elapsed, out, idLog, cleanArgs, mw, res, cli >>

\* fn completes without error, with or without a response sent
HandlerResolves ==
  /\ pc = "awaiting"
  /\ pc' = "resolved"
  /\ \E sent \in BOOLEAN : res' = [res EXCEPT !.headersSent = sent]
  /\ UNCHANGED << err, req, options, now, elapsed, out, idLog, cleanArgs, mw, trace, cli >>

\* fn throws or rejects with err, with or without a response begun; the
\* catch block of the wrapper runs
HandlerRejects ==
  /\ pc = "awaiting"
  /\ \E sent \in BOOLEAN : res' = [res EXCEPT !.headersSent = sent]
  /\ \E c \in {CatchBlock(err, req, options)} :
       /\ trace' = trace \o c.calls
       /\ out' = c.outcome
       /\ pc' = IF c.outcome.kind = "throw" THEN "failed" ELSE "forwarded"
  /\ UNCHANGED << err, req, options, now, elapsed, idLog, cleanArgs, mw, cli >>

\* a middleware whose redaction works on the request body itself
HandleErrorRedactingInPlace ==
  /\ pc = "forwarded"
  /\ \E m \in {Middleware(mw, err, req, res)} :
       /\ trace' = trace \o m.calls
       /\ res' = m.res
       /\ out' = m.outcome
  /\ pc' = "handled"
  /\ req' = IF HasOwn(req, "body")
            THEN Put(req, "body", cleanObject(Get(req, "body"), Get(mw, "redact"),
                                              Get(mw, "maxBodySize")))
            ELSE req
  /\ UNCHANGED << err, options, now, elapsed, idLog, cleanArgs, mw, cli >>

\* the error given to next comes to the error middleware
HandleError ==
  /\ pc = "forwarded"
  /\ \E m \in {Middleware(mw, err, req, res)} :
       /\ trace' = trace \o m.calls
       /\ res' = m.res
       /\ out' = m.outcome
  /\ pc' = "handled"
  /\ UNCHANGED << err, req, options, now, elapsed, idLog, cleanArgs, mw, cli >>

NextServer ==
  CreateMiddleware \/ WrapperCall \/ HandlerResolves \/ HandlerRejects \/ HandleError

SpecServer == InitServer /\ [][NextServer]_vars

----------------------------------------------------------------------------
(* The fourth specification: runs of the command-line tool.                *)

\* the arguments after the script name
CliArgs ==
  { << >>, << "--demo" >>, << "--demo", "--severity", "critical", "-o", "demo.md" >>,
    << "error.json" >>, << "error.json", "-o", "report.md" >>,
    << "-t", "slack", "error.json", "--no-env", "--no-timestamp" >>,
    << "missing.json" >>, << "missing.json", "--output", "report.md" >>,
    << "-o", "report.md" >>, << "--app-version", "1.2.3" >>,
    << "--help" >>, << "error.json", "-v" >> }

\* what error.json holds and what arrives on stdin: JSON texts, and texts
\* that are no JSON
CliTexts ==
  { "{\"message\":\"Test error\",\"stack\":\"at test.js:1:1\"}\n",
    "{\"message\":\"boom\",\"name\":\"TypeError\",\"code\":0,\"request\":{\"method\":\"GET\",\"url\":\"/x\",\"body\":{\"password\":\"hunter2\"}}}",
    "{}", "[]", "42", "\"oops\"", "null", "{\"message\":\"boom\",\"stack\":42}",
    "", "{\"message\":", "{\"message\":\"boom\",}", "{message:1}", "nul" }

InitCli ==
  /\ err = Undef /\ req = Undef /\ options = Undef
  /\ now = 0
  /\ elapsed = 7
  /\ out = NoCall
  /\ idLog = << >>
  /\ cleanArgs = NoArgs
  /\ mw = Undef
  /\ res = [headersSent |-> FALSE]
  /\ trace = << >>
  /\ pc = "idle"
  /\ \E a \in CliArgs, text \in CliTexts, tty \in BOOLEAN :
       cli = [argv |-> a, files |-> Obj(<< "error.json" >>, << Str(text) >>),
              stdin |-> text, isTTY |-> tty, exit |-> Undef]

\* node cli.js ...: main() runs
CliMain ==
  /\ pc = "idle"
  /\ \E m \in { main(cli) } :
       /\ trace' = trace \o m.calls
       /\ pc' = m.pc
       /\ cli' = [cli EXCEPT !.exit = m.exit]
  /\ UNCHANGED << err, req, options, now, elapsed, out, idLog, cleanArgs, mw, res >>

\* stdin ends: the listener set by main() runs
CliStdinEnd ==
  /\ pc = "reading"
  /\ \E m \in { StdinEnd(cli) } :
       /\ trace' = trace \o m.calls
       /\ pc' = m.pc
       /\ cli' = [cli EXCEPT !.exit = m.exit]
  /\ UNCHANGED << err, req, options, now, elapsed, out, idLog, cleanArgs, mw, res >>

NextCli == CliMain \/ CliStdinEnd

SpecCli == InitCli /\ [][NextCli]_vars

----------------------------------------------------------------------------
(* The properties.                                                         *)

\* the configuration a call of errorToMarkdown works with
Config == Spread(defaultOptions, IF options.t = "undef" THEN EmptyObj ELSE options)

\* the deny-list in force, as a sequence of strings
DenyList ==
  LET d == Get(Config, "redact")
  IN  IF d.t = "arr" THEN [i \in 1..Len(d.a) |-> d.a[i].s] ELSE << >>

Sensitive(key, deny) ==
  \E i \in 1..Len(deny) : Includes(ToLowerCase(key), ToLowerCase(deny[i]))

\* the strings held anywhere in the tree v
RECURSIVE StringsIn(_)
StringsIn(v) ==
  CASE v.t = "str" -> {v.s}
    [] v.t = "arr" -> UNION { StringsIn(v.a[i]) : i \in 1..Len(v.a) }
    [] v.t = "obj" -> UNION { StringsIn(v.v[i]) : i \in 1..Len(v.k) }
    [] OTHER       -> {}

\* the strings held under a key of the tree v that the deny-list matches
RECURSIVE SensitiveStrings(_, _)
SensitiveStrings(v, deny) ==
  CASE v.t = "arr" -> UNION { SensitiveStrings(v.a[i], deny) : i \in 1..Len(v.a) }
    [] v.t = "obj" ->
         UNION { IF Sensitive(v.k[i], deny) THEN StringsIn(v.v[i])
                 ELSE SensitiveStrings(v.v[i], deny) : i \in 1..Len(v.k) }
    [] OTHER       -> {}

Returned == out.kind = "return"
Report == out.value.s

\* C1: no value held in the request's body, query or headers under a key
\* that the deny-list matches appears anywhere in the report.
C1_RedactionComplete ==
  Returned =>
    \A field \in {"body", "query", "headers"} :
      \A secret \in SensitiveStrings(OptGet(req, field), DenyList) :
        ~Includes(Report, secret)

\* the deny-list and the size of a direct call of cleanObject
CleanDeny ==
  IF cleanArgs.redactKeys.t = "arr"
  THEN [i \in 1..Len(cleanArgs.redactKeys.a) |-> cleanArgs.redactKeys.a[i].s]
  ELSE << >>

CleanSize == IF cleanArgs.maxSize.t = "num" THEN cleanArgs.maxSize.n ELSE DefaultMaxSize

\* the serialization whose length the redactor compares with maxSize
Measured ==
  JSONstringify(JSONparse(JSONstringify(cleanArgs.obj, RedactReplacer(CleanDeny), "").s),
                NoReplacer, "  ").s

IsTree(v) == v.t \in {"obj", "arr"}

\* C2: an object whose serialized size exceeds maxSize comes back as a string
\* of exactly maxSize characters followed by the marker '... [TRUNCATED]', and
\* a string that comes back for an object always ends with the marker.
C2_TruncationLaw ==
  (Returned /\ IsTree(cleanArgs.obj)) =>
    /\ Len(Measured) > CleanSize =>
          /\ out.value.t = "str"
          /\ Len(out.value.s) = CleanSize + Len(TruncatedMarker)
          /\ EndsWith(out.value.s, TruncatedMarker)
    /\ out.value.t = "str" => EndsWith(out.value.s, TruncatedMarker)

\* C3: errorToMarkdown never throws, whatever the error, the request and the
\* options are; it returns a report string.
C3_NeverThrows == out.kind # "throw"

HexUpper == "0123456789ABCDEF"

IsErrorId(str) ==
  /\ Len(str) = 12
  /\ SubSeq(str, 1, 4) = "ERR-"
  /\ \A i \in 5..12 : \E j \in 1..Len(HexUpper) : CharAt(str, i) = CharAt(HexUpper, j)

\* C4: the calls of generateErrorId on the same error and request give the
\* same result whenever they are made and whatever was called before, and a
\* returned id is 'ERR-' followed by 8 uppercase hexadecimal characters.
C4_FingerprintDeterministic ==
  /\ \A i, j \in 1..Len(idLog) : idLog[i].res = idLog[j].res
  /\ \A i \in 1..Len(idLog) :
       idLog[i].res.kind = "return" =>
         idLog[i].res.value.t = "str" /\ IsErrorId(idLog[i].res.value.s)

\* two calls at different times have returned an id
C4_Witness ==
  /\ Len(idLog) = 2
  /\ idLog[1].at # idLog[2].at
  /\ idLog[1].res.kind = "return"
  /\ idLog[2].res.kind = "return"

\* the canonical tuple: message or empty, first stack line or empty,
\* original path else plain path else empty, method or empty
CanonicalTuple(e, r) ==
  LET st == OptGet(e, "stack")
  IN  << OrElse(OptGet(e, "message"), Str("")),
         IF st.t = "str" /\ st.s # "" THEN Str(Split(st.s, "\n")[1]) ELSE Str(""),
         OrElse(OrElse(OptGet(r, "originalUrl"), OptGet(r, "url")), Str("")),
         OrElse(OptGet(r, "method"), Str("")) >>

\* the fingerprint of every call of the model
IdTable == { << c, generateErrorId(c[1], c[2]) >> : c \in IdCalls }

IdOf(c) == (CHOOSE p \in IdTable : p[1] = c)[2]

\* C5: every error and request with the same canonical tuple as the ones of
\* the call made get the fingerprint that the call returned.
C5_CanonicalTuple ==
  (Len(idLog) > 0 /\ out.kind = "return") =>
    \A c \in IdCalls :
      (c[1].t = "obj" /\ CanonicalTuple(c[1], c[2]) = CanonicalTuple(err, req))
        => IdOf(c) = out

BuiltInThemes == {"github", "slack", "discord"}

\* the theme asked for is none of the built-in ones
UnknownTheme ==
  LET name == Get(Config, "theme")
  IN  ~(name.t = "str" /\ name.s \in BuiltInThemes)

Footer == "*Generated by [error-to-md](https://github.com/imankii01/error-to-md) (rocket)*"

\* C6: with a theme name that is none of 'github', 'slack' and 'discord' the
\* call returns a report made of the 'github' tokens: its title, its icons
\* and its separator.
C6_ThemeFallback ==
  (out.kind # "none" /\ UnknownTheme) =>
    /\ Returned
    /\ StartsWith(Report, "## (bug) Bug Report\n")
    /\ Includes(Report, "\n(x) **Error Message:**\n")
    /\ Includes(Report, "\n(clipboard) **Stack Trace:**\n")
    /\ EndsWith(Report, "\n---\n" \o Footer)

\* the label the severity line is to carry
SeverityLabel ==
  LET sv == Get(Config, "severity")
  IN  CASE sv = Str("info")     -> "(bulb) INFO"
        [] sv = Str("warning")  -> "(warning) WARNING"
        [] sv = Str("critical") -> "(siren) CRITICAL"
        [] OTHER                -> "(x) ERROR"

\* C7: the severity line carries the label of the severity asked for when it
\* is info, warning, error or critical, and the label of 'error' otherwise.
C7_SeverityLabel ==
  Returned => Includes(Report, "\n**Severity:** " \o SeverityLabel \o "\n")

\* the error's stack, when it has one: a string that is not empty
HasStack == Truthy(OptGet(err, "stack"))

StackLines == Split(Get(err, "stack").s, "\n")

StackCap == Get(Config, "maxStackLines").n

Min(a, b) == IF a < b THEN a ELSE b

\* the report holds a stack block of exactly these lines
StackBlockIs(lines) ==
  Includes(Report, " **Stack Trace:**\n~~~\n" \o Join(lines, "\n") \o "\n~~~\n\n")

Placeholder == "No stack trace available"

\* the lines of the block for a stack: the first min(n, k) lines (one empty
\* line when that is none), then the marker if and only if n > k
CappedStack ==
  LET kept == SubSeq(StackLines, 1, Min(Len(StackLines), StackCap))
  IN  (IF kept = << >> THEN << "" >> ELSE kept)
      \o (IF Len(StackLines) > StackCap THEN << TruncatedMarker >> ELSE << >>)

\* C8 as stated: for a stack of n lines and a cap k the block holds the
\* first min(n, k) lines, then the marker if and only if n > k; without a
\* stack it holds the placeholder line and no marker.
C8_StackCapAsStated ==
  Returned =>
    IF HasStack THEN StackBlockIs(CappedStack) ELSE StackBlockIs(<< Placeholder >>)

\* C8, amended: for a stack of n lines and a cap k the block holds the first
\* min(n, k) lines, then the marker if and only if n > k; without a stack
\* (absent or empty) it holds the placeholder line and no marker when
\* k >= 1, and one empty line and no marker when k = 0.
C8_StackCap ==
  Returned =>
    IF HasStack THEN StackBlockIs(CappedStack)
    ELSE IF StackCap >= 1 THEN StackBlockIs(<< Placeholder >>)
    ELSE StackBlockIs(<< "" >>)

\* a stack longer than a cap of at least one line has been reported
C8_Witness ==
  /\ Returned
  /\ HasStack
  /\ StackCap >= 1
  /\ Len(StackLines) > StackCap

IsMapping(v) == v.t = "obj" /\ Len(v.k) > 0

\* a mapping, a sequence or a string that is not empty
IsNonEmpty(v) ==
  \/ IsMapping(v)
  \/ v.t = "arr" /\ Len(v.a) > 0
  \/ v.t = "str" /\ Len(v.s) > 0

Supplied == req.t \notin {"undef", "null"}

HasSection == Includes(Report, " **Request Details:**\n")
HasBody == Includes(Report, "\n- **Body:**\n~~~json\n")
HasQuery == Includes(Report, "\n- **Query Parameters:**\n~~~json\n")
HasParams == Includes(Report, "\n- **Route Parameters:**\n~~~json\n")
HasHeaders == Includes(Report, "\n- **Headers:**\n~~~json\n")

\* C9 as stated: the section is there if and only if a request is supplied;
\* the Body, Query Parameters and Route Parameters blocks are there if and
\* only if the field is a non-empty mapping; the Headers block is there for
\* every supplied request.
C9_RequestSectionAsStated ==
  Returned =>
    /\ HasSection <=> Supplied
    /\ HasBody <=> (Supplied /\ IsMapping(Get(req, "body")))
    /\ HasQuery <=> (Supplied /\ IsMapping(Get(req, "query")))
    /\ HasParams <=> (Supplied /\ IsMapping(Get(req, "params")))
    /\ HasHeaders <=> Supplied

\* C9, amended: the section is there if and only if a request is supplied;
\* the Body, Query Parameters and Route Parameters blocks are there if and
\* only if the field is a mapping, a sequence or a string that is not empty;
\* the Headers block is there for every supplied request.
C9_RequestSection ==
  Returned =>
    /\ HasSection <=> Supplied
    /\ HasBody <=> (Supplied /\ IsNonEmpty(Get(req, "body")))
    /\ HasQuery <=> (Supplied /\ IsNonEmpty(Get(req, "query")))
    /\ HasParams <=> (Supplied /\ IsNonEmpty(Get(req, "params")))
    /\ HasHeaders <=> Supplied

\* a request without headers and with a body has been reported
C9_Witness ==
  /\ Returned
  /\ Supplied
  /\ ~HasOwn(req, "headers")
  /\ IsNonEmpty(Get(req, "body"))

\* the block of a field run through the redactor with the configured
\* deny-list and the configured size cap
RedactedBlock(title, value) ==
  "\n- **" \o title \o ":**\n~~~json\n"
    \o JSONstringify(cleanObject(value, Get(Config, "redact"), Get(Config, "maxBodySize")),
                     NoReplacer, "  ").s
    \o "\n~~~\n"

\* C10: the Body and the Query Parameters blocks hold the field as the
\* redactor returns it for the configured deny-list and the configured
\* maxBodySize (cut and marked when it is larger), and the Route Parameters
\* block holds the field as it is.
C10_ConfiguredSizeCap ==
  Returned =>
    /\ HasBody => Includes(Report, RedactedBlock("Body", Get(req, "body")))
    /\ HasQuery => Includes(Report, RedactedBlock("Query Parameters", Get(req, "query")))
    /\ HasParams =>
         Includes(Report, "\n- **Route Parameters:**\n~~~json\n"
                            \o JSONstringify(Get(req, "params"), NoReplacer, "  ").s
                            \o "\n~~~\n")

----------------------------------------------------------------------------
(* The middleware, the async wrapper and the layout of the report.         *)

\* the names of the options: the defaults and the two the middleware adds
OptionNames ==
  { defaultOptions.k[i] : i \in 1..Len(defaultOptions.k) } \cup { "logger", "sendMarkdown" }

\* what a shallow merge gives an option: the caller's value, else the default
CallerOrDefault(key) ==
  IF HasOwn(options, key) THEN Get(options, key) ELSE Get(defaultOptions, key)

\* the reports written to console.error so far
Logged ==
  { trace[i].args[1].s : i \in { j \in 1..Len(trace) : trace[j].op = "console.error" } }

\* the caller's deny-list when one is supplied, else the default one
CallerDenyList ==
  LET d == CallerOrDefault("redact")
  IN  IF d.t = "arr" THEN [i \in 1..Len(d.a) |-> d.a[i].s] ELSE << >>

\* C11: the configuration the middleware holds has, for every option, the
\* caller's value when the caller supplies the option and the default
\* otherwise; and a request body's password is redacted in a logged report
\* exactly when the list in force (the caller's list alone when one is
\* supplied, else the default list) matches 'password'.
C11_ShallowMerge ==
  /\ mw # Undef => \A key \in OptionNames : Get(mw, key) = CallerOrDefault(key)
  /\ HasOwn(OptGet(req, "body"), "password") =>
        \A report \in Logged :
          Includes(report, Secret) <=> ~Sensitive("password", CallerDenyList)

\* a report was logged that shows the password, the caller's list having
\* replaced the default list, by the wrapper and by the middleware
C11_Witness ==
  /\ pc = "handled"
  /\ HasOwn(options, "redact")
  /\ Get(mw, "redact") = Get(options, "redact")
  /\ Sensitive("password", [i \in 1..Len(Get(defaultOptions, "redact").a) |->
                              Get(defaultOptions, "redact").a[i].s])
  /\ Cardinality({ i \in 1..Len(trace) : trace[i].op = "console.error"
                                          /\ Includes(trace[i].args[1].s, Secret) }) = 2

\* the status the response should carry: err.status when the error carries
\* one, else err.statusCode, else 500 (a status of 0, which is no HTTP status,
\* counts as none)
ExpectedStatus ==
  IF Truthy(Get(err, "status")) THEN Get(err, "status")
  ELSE IF Truthy(Get(err, "statusCode")) THEN Get(err, "statusCode")
  ELSE Num(500)

\* the report the middleware builds for the error at hand
BuiltReport == errorToMarkdown(err, req, mw).value.s

\* the calls the protocol asks of the middleware, in order
ExpectedCalls ==
  << Event("console.error", << Str("\n" \o BuiltReport \o "\n") >>) >>
  \o (IF Get(mw, "logger").t = "fun"
      THEN << Event("logger", << Str(BuiltReport), err, req >>) >> ELSE << >>)
  \o (IF res.headersSent THEN << >>
      ELSE << Event("res.status", << ExpectedStatus >>) >>
           \o (IF Truthy(Get(mw, "sendMarkdown"))
               THEN << Event("res.type", << Str("text/markdown") >>),
                       Event("res.send", << Str(BuiltReport) >>) >>
               ELSE << Event("res.json",
                             << Obj(<< "error" >>, << Str("Internal Server Error") >>) >>) >>))

\* C12: the middleware, handling an error, builds the report, writes it to
\* console.error, calls the logger once with (report, error, request) when
\* the logger is a function, and then, if and only if the response headers
\* are not sent, sets the status once (err.status, else err.statusCode, else
\* 500) and sends exactly one body: the report as text/markdown when
\* sendMarkdown is set, else the generic JSON body; and makes no other call.
C12_ResponseProtocol ==
  [][pc = "forwarded" /\ pc' = "handled" => trace' = trace \o ExpectedCalls]_vars

\* the calls the middleware made, those of the wrapper before it left out
MiddlewareCalls ==
  IF pc = "handled"
  THEN LET n == CHOOSE i \in 1..Len(trace) : trace[i].op = "next"
       IN  SubSeq(trace, n + 1, Len(trace))
  ELSE << >>

\* an error with a statusCode and no status was handled with the headers not
\* sent: logged, given to the logger, answered with 503 and the JSON body
C12_Witness ==
  /\ pc = "handled"
  /\ [i \in 1..Len(MiddlewareCalls) |-> MiddlewareCalls[i].op]
       = << "console.error", "logger", "res.status", "res.json" >>
  /\ MiddlewareCalls[3].args = << Num(503) >>

\* the values next was called with so far, in order
NextCalls ==
  LET at == SelectSeq([i \in 1..Len(trace) |-> i], LAMBDA i : trace[i].op = "next")
  IN  [k \in 1..Len(at) |-> trace[at[k]].args]

\* C13: once the handler wrapped by asyncErrorToMd has thrown or rejected
\* with a value and the wrapper's catch block has run, next has been called
\* exactly once, with that same value, after the report was logged; when the
\* handler has completed without error, next has not been called.
C13_Forwarding ==
  /\ pc \in {"forwarded", "failed", "handled"} =>
        /\ NextCalls = << << err >> >>
        /\ \E i, j \in 1..Len(trace) :
              i < j /\ trace[i].op = "console.error" /\ trace[j].op = "next"
  /\ pc = "resolved" => NextCalls = << >>

\* what the command line asks for
Asked == parseArgs(cli.argv)

Demo == Asked.early = "" /\ Asked.showDemo
FromFile == Asked.early = "" /\ ~Asked.showDemo /\ Truthy(Asked.inputFile)
FromStdin == Asked.early = "" /\ ~Asked.showDemo /\ ~Truthy(Asked.inputFile)
Found == FromFile /\ HasOwn(cli.files, Asked.inputFile.s)

\* the JSON text the run reads
InputText ==
  IF FromFile THEN (IF Found THEN Get(cli.files, Asked.inputFile.s).s ELSE "")
  ELSE cli.stdin

ValidJSON == JSONparseText(InputText).kind = "return"

\* the JSON value is one a report can be built from: not null, and with a
\* stack that is a string when it has one
Reportable ==
  /\ ValidJSON
  /\ LET v == JSONparseText(InputText).value
     IN  /\ v.t # "null"
         /\ Truthy(Get(v, "stack")) => Get(v, "stack").t = "str"

\* the reports written to stdout and to files so far
ReportsWritten ==
  SelectSeq(trace, LAMBDA c : c.op \in {"console.log", "writeFileSync"})

\* the report went where it was asked to go, and is a report
WrittenAsAsked ==
  /\ Len(ReportsWritten) = 1
  /\ ReportsWritten[1].op = (IF Truthy(Asked.outputFile) THEN "writeFileSync" ELSE "console.log")
  /\ Truthy(Asked.outputFile) => ReportsWritten[1].args[1] = Asked.outputFile
  /\ EndsWith(ReportsWritten[1].args[Len(ReportsWritten[1].args)].s, Footer)

ExpectedMessage ==
  LET m == OptGet(err, "message")
  IN  IF m.t = "undef" \/ m = Str("") THEN "Unknown Error" ELSE ToStr(m)

\* C16: in every report returned, the fenced block under the heading
\* '**Error Message:**' holds the literal text 'Unknown Error' when the
\* error's message is empty or absent, and the message verbatim otherwise.
C16_MessageFallback ==
  Returned =>
    Includes(Report, " **Error Message:**\n~~~\n" \o ExpectedMessage \o "\n~~~\n")

\* a report was returned for an error whose message is the empty string
C16_Witness ==
  /\ Returned
  /\ HasOwn(err, "message") /\ Get(err, "message") = Str("")
  /\ Includes(Report, "~~~\nUnknown Error\n~~~")

\* the titles and the separators of the three themes
Titles == { "## (bug) Bug Report", "*(bug) Bug Report*" }
Separators == { "---", "~~~", "~~~diff" }

\* the place in the fixed order of the section that line i of lines opens,
\* 0 when the line opens none: 1 title, 2 error ID, 3 timestamp, 4 severity,
\* 5 message, 6 type, 7 code, 8 stack, 9 request, 10 environment,
\* 11 generation time, 12 separator, 13 footer
SectionAt(lines, i) ==
  LET line == lines[i]
      n == Len(lines)
  IN  CASE i = 1 -> IF line \in Titles THEN 1 ELSE 0
        [] i = n -> IF line = Footer THEN 13 ELSE 0
        [] i = n - 1 -> IF line \in Separators THEN 12 ELSE 0
        [] StartsWith(line, "**Error ID:** ") -> 2
        [] StartsWith(line, "**Timestamp:** ") -> 3
        [] StartsWith(line, "**Severity:** ") -> 4
        [] EndsWith(line, " **Error Message:**") -> 5
        [] StartsWith(line, "**Error Type:** ") -> 6
        [] StartsWith(line, "**Error Code:** ") -> 7
        [] EndsWith(line, " **Stack Trace:**") -> 8
        [] EndsWith(line, " **Request Details:**") -> 9
        [] EndsWith(line, " **Environment:**") -> 10
        [] Includes(line, " **Report Generation Time:** ") -> 11
        [] OTHER -> 0

\* the sections that the lines open, one entry a line
SectionsOf(lines) == [i \in 1..Len(lines) |-> SectionAt(lines, i)]

\* the sections are in the fixed order, each at most once, the title on the
\* first line, the separator and the footer on the last two, and severity,
\* message and stack there
InFixedOrder(sections) ==
  LET n == Len(sections)
  IN  /\ \A i, j \in 1..n :
           i < j /\ sections[i] # 0 /\ sections[j] # 0 => sections[i] < sections[j]
      /\ sections[1] = 1
      /\ sections[n - 1] = 12
      /\ sections[n] = 13
      /\ {4, 5, 8} \subseteq { sections[i] : i \in 1..n }

\* C17: in every report returned the sections appear in the fixed order
\* title, error ID, timestamp, severity, message, type, code, stack,
\* request, environment, generation time, separator, footer, each at most
\* once; the title is the first line, the separator and the footer are the
\* last two, and severity, message and stack are always there.
C17_SectionOrder ==
  Returned =>
    \A sections \in { SectionsOf(lines) : lines \in { Split(Report, "\n") } } :
      InFixedOrder(sections)

\* the error has a name that is not the generic one
HasOwnType ==
  LET name == OptGet(err, "name")
  IN  name.t = "str" /\ name.s # "" /\ name.s # "Error"

\* the error carries a code: a string or an integer, 0 included
CarriesCode == OptGet(err, "code").t \in {"str", "num"}

\* C18: a report returned has the line '**Error Type:**' with the name if
\* and only if the error has a name other than 'Error', and the line
\* '**Error Code:**' with the code if and only if the error carries a code,
\* the integer 0 included.
C18_TypeAndCodeLines ==
  Returned =>
    /\ Includes(Report, "\n**Error Type:** ~") <=> HasOwnType
    /\ HasOwnType => Includes(Report, "\n**Error Type:** ~" \o ToStr(Get(err, "name")) \o "~\n")
    /\ Includes(Report, "\n**Error Code:** ~") <=> CarriesCode
    /\ CarriesCode => Includes(Report, "\n**Error Code:** ~" \o ToStr(Get(err, "code")) \o "~\n")

\* the names of the calls a step adds to the trace
AddedCalls == { trace'[i].op : i \in (Len(trace) + 1)..Len(trace') }

\* C19: the middleware of expressErrorToMd, handling an error, never calls
\* next; and when res.headersSent is true it calls none of res.status,
\* res.type, res.send and res.json: it only logs.
C19_NoDelegation ==
  [][pc = "forwarded" /\ pc' = "handled" =>
       /\ "next" \notin AddedCalls
       /\ res.headersSent => AddedCalls \subseteq {"console.error", "logger"}]_vars

\* the middleware handled an error after the response had begun: it wrote
\* the report to console.error, called the logger, and did nothing else
C19_Witness ==
  /\ pc = "handled"
  /\ res.headersSent
  /\ [i \in 1..Len(MiddlewareCalls) |-> MiddlewareCalls[i].op] = << "console.error", "logger" >>

============================================================================
